---- MODULE Spec2Model ----
(***************************************************************************)
(* KiroGate: credential pool (lib/accountPool.ts), circuit breaker         *)
(* (lib/errorHandler.ts), Anthropic SSE encoder (lib/stream.ts) and the    *)
(* proxied-request handlers of main.ts, as state machines.                 *)
(*                                                                         *)
(* Time is Date.now() in milliseconds.  The clock only moves in Tick.      *)
(***************************************************************************)
EXTENDS Integers, Sequences, FiniteSets, TLC

(***************************************************************************)
(* Bounds of the model (not program constants).                            *)
(***************************************************************************)
MaxTicks == 4
\* decoder callbacks delivered to one streaming response before it ends
MaxChunks == 4
\* items one ThinkingBufferParser call returns
MaxItems == 2
\* calls of the pool's API in one behaviour
MaxCalls == 6
\* clock steps while the pool is exercised, and their length
MaxPoolTicks == 1
PoolTickMs == 60000
\* a persisted token expires this long after process start
PersistedExpiryMs == 20000
\* proxied requests served in one behaviour
MaxRequests == 6
\* pieces an input string of the thinking parser is made of, and chunks it
\* is fed in
MaxPieces == 3
MaxFeeds == 3

\* Date.now() at process start, and the amounts by which the clock advances.
StartTime == 1000000
TickMs == 30000
TickSteps == {TickMs}

(***************************************************************************)
(* Program constants.                                                      *)
(***************************************************************************)
\* main.ts:86  new CircuitBreaker(5, 60000)
failureThreshold == 5
resetTimeoutMs == 60000
\* errorHandler.ts constructor default
halfOpenMaxAttempts == 3
\* accountPool.ts DEFAULT_CONFIG
cooldownMs == 60000
maxErrorCount == 5
autoResetIntervalMs == 300000
\* accountPool.ts markRefreshComplete: cooldown after a failed refresh
refreshCooldownMs == 30000
\* accountPool.ts zeroDowntimeFallback: a cooldown this close to its end is cut short
nearCooldownMs == 5000
\* accountPool.ts checkAccountAvailability: grace after the token's expiry
expiryGraceMs == 30000
\* main.ts refreshAccountToken: default expiresIn (3600 s)
refreshedTokenMs == 3600000
\* main.ts ensureValidToken: a token expiring within 5 min is refreshed first
tokenRefreshWindowMs == 300000

VARIABLES
  now,             \* Date.now()
  \* ---- CircuitBreaker fields
  cbState,         \* state: CLOSED | OPEN | HALF_OPEN
  failureCount,
  successCount,
  lastFailTime,
  \* ---- observers of the breaker's calls (not program state)
  cbCall,          \* the last breaker call and what it returned
  consecFailures,  \* recordFailure calls since the last recordSuccess call
  probeSuccesses,  \* recordSuccess calls since the breaker last entered HALF_OPEN
  lastFailureAt,   \* Date.now() of the last recordFailure call
  openedAt,        \* Date.now() of the recordFailure call that last opened the breaker
  \* ---- one Anthropic streaming response (main.ts handleClaudeStream)
  encPc,           \* idle | streaming | closed
  handler,         \* the ClaudeStreamHandler; handler.out is what onWrite enqueued
  encChunks,       \* decoder callbacks delivered so far
  \* ---- AccountPool fields
  order,           \* the keys of the accounts Map, in insertion order
  accounts,        \* accounts Map: id -> ProxyAccount
  inflightRequests,
  lastAutoReset,
  loadBalancingMode,
  \* ---- observers of the pool's calls (not program state)
  lastCall,        \* the last getNextAccount call and what it returned
  poolCalls,       \* calls of the pool's API so far
  bannedIds,       \* credentials recordError(id, 'banned') has run for
  \* ---- proxied requests (main.ts handleChatCompletions, handleAnthropicMessages)
  requests,        \* per request: where its handler stands and the account it got
  served,          \* requests that have entered a handler so far
  upstreamStatus,  \* observer: the HTTP status an upstream call ended with in the last handler step, else 0
  \* ---- one ThinkingBufferParser fed a string in chunks
  tp,              \* the parser, the string, what is left to feed, the items emitted
  \* ---- one thinking-enabled Anthropic streaming response, decoder to client
  pipe,            \* the decoder's and the handler's parsers, the handler, the deltas
  \* ---- one OpenAI request on its way to the upstream payload
  conv,            \* the request's messages, the payload built and sanitized
  \* ---- the history compressor
  cmp,             \* the three caches, the statistics, the last two calls
  \* ---- one streaming upstream call and its decoder
  dec,             \* the decoder, the callbacks made, the two SSE handlers
  \* ---- the compression locks
  lk,              \* the locks, the compressions started, the compressHistory calls
  \* ---- one callKiroApiStream call
  up,              \* the loop's variables, the payload, the POSTs and callbacks made
  \* ---- one stream of tool calls through the decoder into the two SSE handlers
  ts,              \* the decoder's tool buffers, the handlers, the call behind each write
  \* ---- the batch loop of one compression
  bt,              \* the summaries, the prompts built, the summarizations in flight
  \* ---- tool definitions (accountPool.ts convertOpenAITools, types.ts buildKiroPayload)
  tl,              \* the tool conversion cache and the tools of the last payload
  \* ---- rate limiter (lib/types.ts RateLimiter, TokenBucket)
  rl,              \* the buckets of the rate limiter and its last answer
  \* ---- request metrics (main.ts metrics, recordRequest, handleRequest)
  mt               \* the counters, the request log and the requests handled

cbVars == <<cbState, failureCount, successCount, lastFailTime>>
cbObs == <<cbCall, consecFailures, probeSuccesses, lastFailureAt, openedAt>>
encVars == <<encPc, handler, encChunks>>
poolVars == <<order, accounts, inflightRequests, lastAutoReset, loadBalancingMode>>
poolObs == <<lastCall, poolCalls, bannedIds>>
gwVars == <<requests, served, upstreamStatus>>
vars == <<now, cbVars, cbObs, encVars, poolVars, poolObs, gwVars, tp, pipe, conv, cmp, dec, lk, up, ts, bt, tl, rl, mt>>

Max(a, b) == IF a >= b THEN a ELSE b
Min(a, b) == IF a <= b THEN a ELSE b

NoCall == [op |-> "none", ret |-> TRUE, from |-> "none"]

(***************************************************************************)
(* Clock.                                                                  *)
(***************************************************************************)
ClockAdvance(d) ==
  /\ now + d <= StartTime + MaxTicks * TickMs
  /\ now' = now + d

(***************************************************************************)
(* CircuitBreaker (lib/errorHandler.ts).                                   *)
(***************************************************************************)
CbInit ==
  /\ cbState = "CLOSED"
  /\ failureCount = 0
  /\ successCount = 0
  /\ lastFailTime = 0
  /\ cbCall = NoCall
  /\ consecFailures = 0
  /\ probeSuccesses = 0
  /\ lastFailureAt = 0
  /\ openedAt = 0

\* canExecute(): the value returned, read in the state before the call.
CanExecuteResult_NoBoundary ==
  IF cbState = "OPEN" THEN now - lastFailTime > resetTimeoutMs ELSE TRUE

CanExecuteResult ==
  IF cbState = "OPEN" THEN now - lastFailTime >= resetTimeoutMs ELSE TRUE

\* canExecute(): the fields after the call.
CanExecuteEffect_KeepSuccessCount ==
  IF cbState = "OPEN" /\ CanExecuteResult
    THEN /\ cbState' = "HALF_OPEN"
         /\ successCount' = successCount
    ELSE UNCHANGED <<cbState, successCount>>

CanExecuteEffect ==
  IF cbState = "OPEN" /\ CanExecuteResult
    THEN /\ cbState' = "HALF_OPEN"
         /\ successCount' = 0
    ELSE UNCHANGED <<cbState, successCount>>

\* circuitBreaker.recordSuccess(): the fields after the call.
CbRecordSuccessEffect_Reset ==
  CASE cbState = "HALF_OPEN" ->
         /\ successCount' = successCount + 1
         /\ IF successCount + 1 >= halfOpenMaxAttempts
              THEN cbState' = "CLOSED" /\ failureCount' = 0
              ELSE UNCHANGED <<cbState, failureCount>>
    [] cbState = "CLOSED" ->
         /\ failureCount' = 0
         /\ UNCHANGED <<cbState, successCount>>
    [] OTHER -> UNCHANGED <<cbState, failureCount, successCount>>

CbRecordSuccessEffect ==
  CASE cbState = "HALF_OPEN" ->
         /\ successCount' = successCount + 1
         /\ IF successCount + 1 >= halfOpenMaxAttempts
              THEN cbState' = "CLOSED" /\ failureCount' = 0
              ELSE UNCHANGED <<cbState, failureCount>>
    [] cbState = "CLOSED" ->
         /\ failureCount' = Max(0, failureCount - 1)
         /\ UNCHANGED <<cbState, successCount>>
    [] OTHER -> UNCHANGED <<cbState, failureCount, successCount>>

\* circuitBreaker.recordFailure(): the fields after the call.
CbRecordFailureEffect_StayHalfOpen ==
  /\ lastFailTime' = now
  /\ CASE cbState = "CLOSED" ->
            /\ failureCount' = failureCount + 1
            /\ cbState' = IF failureCount + 1 >= failureThreshold THEN "OPEN" ELSE "CLOSED"
       [] OTHER -> UNCHANGED <<cbState, failureCount>>
  /\ UNCHANGED successCount

CbRecordFailureEffect ==
  /\ lastFailTime' = now
  /\ CASE cbState = "CLOSED" ->
            /\ failureCount' = failureCount + 1
            /\ cbState' = IF failureCount + 1 >= failureThreshold THEN "OPEN" ELSE "CLOSED"
       [] cbState = "HALF_OPEN" ->
            /\ cbState' = "OPEN"
            /\ UNCHANGED failureCount
       [] OTHER -> UNCHANGED <<cbState, failureCount>>
  /\ UNCHANGED successCount

\* The observers' bookkeeping for one breaker call.
CbObserve(op, ret) ==
  /\ cbCall' = IF op = "none" THEN NoCall ELSE [op |-> op, ret |-> ret, from |-> cbState]
  /\ lastFailureAt' = IF op = "recordFailure" THEN now ELSE lastFailureAt
  /\ openedAt' = IF cbState' = "OPEN" /\ cbState # "OPEN" THEN now ELSE openedAt
  /\ consecFailures' =
       CASE op = "recordFailure" -> Min(consecFailures + 1, failureThreshold + 1)
         [] op = "recordSuccess" -> 0
         [] OTHER -> consecFailures
  /\ probeSuccesses' =
       CASE cbState' = "HALF_OPEN" /\ cbState # "HALF_OPEN" -> 0
         [] op = "recordSuccess" -> Min(probeSuccesses + 1, halfOpenMaxAttempts + 1)
         [] OTHER -> probeSuccesses

CanExecute ==
  /\ CanExecuteEffect
  /\ UNCHANGED <<failureCount, lastFailTime>>
  /\ CbObserve("canExecute", CanExecuteResult)
  /\ UNCHANGED now

CbRecordSuccess ==
  /\ CbRecordSuccessEffect
  /\ UNCHANGED lastFailTime
  /\ CbObserve("recordSuccess", TRUE)
  /\ UNCHANGED now

CbRecordFailure ==
  /\ CbRecordFailureEffect
  /\ CbObserve("recordFailure", TRUE)
  /\ UNCHANGED now

CbTick ==
  /\ \E d \in TickSteps : ClockAdvance(d)
  /\ UNCHANGED cbVars
  /\ CbObserve("none", TRUE)


(***************************************************************************)
(* ClaudeStreamHandler and SSEStateManager (lib/stream.ts), driven by the  *)
(* callbacks of main.ts handleClaudeStream.                                *)
(*                                                                         *)
(* An SSE event is kept as its type, its block index and its kind (block   *)
(* type, delta type or stop reason); the text it carries is not modelled.  *)
(***************************************************************************)
ToolIds == {"t1", "t2"}
NoTool == ""
ContentLengthExceededId == "__content_length_exceeded__"

Ev(type, index, kind) == [type |-> type, index |-> index, kind |-> kind]

\* What ThinkingBufferParser.process / finish can return, as the sequence of
\* the items' types.  The parser's buffer is not modelled: process may return
\* any sequence of items, finish at most one thinking item and one text item.
ItemTypes == {"thinking", "text"}
ProcessResults == UNION {[1..n -> ItemTypes] : n \in 0..MaxItems}
FinishResults == {<<>>, <<"thinking">>, <<"text">>, <<"thinking", "text">>}

\* new ClaudeStreamHandler({... enableThinkingParsing ...})
NewHandler(thinkingEnabled) ==
  [ enableThinkingParsing |-> thinkingEnabled,
    state |-> "initial",              \* stateManager.state
    contentBlockOpen |-> FALSE,       \* stateManager.contentBlockOpen
    contentBlockIdx |-> -1,           \* stateManager.contentBlockIdx
    currentBlockType |-> "null",
    contentBlockIndex |-> -1,
    contentBlockStartSent |-> FALSE,
    currentToolUse |-> NoTool,
    processedToolUseIds |-> {},
    toolCalls |-> <<>>,
    responseEnded |-> FALSE,
    stopReasonOverride |-> "null",
    out |-> <<>> ]

\* this.onWrite(...)
Write(h, e) == [h EXCEPT !.out = Append(@, e)]

SendMessageStart(h) ==
  IF h.state # "initial" THEN h
  ELSE [Write(h, Ev("message_start", -1, "null")) EXCEPT !.state = "message_started"]

StartContentBlock_SameIndex(h, blockType) ==
  LET h1 == [h EXCEPT !.currentBlockType = blockType,
                      !.contentBlockStartSent = TRUE,
                      !.contentBlockOpen = TRUE,
                      !.contentBlockIdx = @ + 1]
  IN Write(h1, Ev("content_block_start", Max(0, h1.contentBlockIndex), blockType))

StartContentBlock(h, blockType) ==
  LET h1 == [h EXCEPT !.contentBlockIndex = @ + 1,
                      !.currentBlockType = blockType,
                      !.contentBlockStartSent = TRUE,
                      !.contentBlockOpen = TRUE,
                      !.contentBlockIdx = @ + 1]
  IN Write(h1, Ev("content_block_start", h1.contentBlockIndex, blockType))

CloseCurrentBlock_ToolLeftOpen(h) ==
  IF h.currentBlockType # "null" /\ h.contentBlockStartSent
    THEN [(IF h.currentBlockType = "tool_use" THEN h
           ELSE Write(h, Ev("content_block_stop", h.contentBlockIndex, "null")))
            EXCEPT !.contentBlockOpen = FALSE,
                   !.currentBlockType = "null",
                   !.contentBlockStartSent = FALSE]
    ELSE h

CloseCurrentBlock(h) ==
  IF h.currentBlockType # "null" /\ h.contentBlockStartSent
    THEN [Write(h, Ev("content_block_stop", h.contentBlockIndex, "null"))
            EXCEPT !.contentBlockOpen = FALSE,
                   !.currentBlockType = "null",
                   !.contentBlockStartSent = FALSE]
    ELSE h

\* emitThinking / emitText for one non-empty item.  The buffer-overflow branch
\* writes the same events as the normal one.
Emit(h, itemType) ==
  LET h1 == IF h.currentBlockType # itemType
              THEN StartContentBlock(CloseCurrentBlock(h), itemType)
              ELSE h
  IN Write(h1, Ev("content_block_delta", h1.contentBlockIndex,
                  IF itemType = "thinking" THEN "thinking_delta" ELSE "text_delta"))

RECURSIVE EmitAll(_, _)
EmitAll(h, items) ==
  IF items = <<>> THEN h ELSE EmitAll(Emit(h, Head(items)), Tail(items))

\* handleContent(content) for non-empty content; items is what the parser
\* returned for it.
HandleContent(h, items) ==
  IF h.responseEnded THEN h
  ELSE IF h.enableThinkingParsing THEN EmitAll(h, items) ELSE Emit(h, "text")

\* safeAdd(fragment) for a non-empty fragment: both branches write the delta.
SafeAdd(h) ==
  IF h.currentToolUse = NoTool THEN h
  ELSE Write(h, Ev("content_block_delta", h.contentBlockIndex, "input_json_delta"))

FinishToolUse(h) ==
  IF h.currentToolUse = NoTool THEN h
  ELSE [CloseCurrentBlock([h EXCEPT !.toolCalls = Append(@, h.currentToolUse)])
          EXCEPT !.currentToolUse = NoTool]

\* handleToolUse(toolUseId, toolName, toolInput, isStop).  id = NoTool stands
\* for a missing id, hasName for a non-empty name, hasInput for an input that
\* yields a non-empty fragment.
HandleToolUse(h, id, hasName, hasInput, isStop) ==
  IF h.responseEnded THEN h
  ELSE IF id = NoTool /\ ~hasName THEN
    IF h.currentToolUse # NoTool
      THEN LET h1 == IF hasInput THEN SafeAdd(h) ELSE h
           IN IF isStop THEN FinishToolUse(h1) ELSE h1
      ELSE h
  ELSE IF id # NoTool /\ hasName /\ h.currentToolUse = NoTool THEN
    IF id \in h.processedToolUseIds THEN h
    ELSE LET h1 == [CloseCurrentBlock(h) EXCEPT !.processedToolUseIds = @ \cup {id}]
             h2 == [StartContentBlock(h1, "tool_use") EXCEPT !.currentToolUse = id]
             h3 == IF hasInput THEN SafeAdd(h2) ELSE h2
         IN IF isStop THEN FinishToolUse(h3) ELSE h3
  ELSE
    LET h1 == IF h.currentToolUse # NoTool /\ hasInput THEN SafeAdd(h) ELSE h
    IN IF isStop /\ h1.currentToolUse # NoTool THEN FinishToolUse(h1) ELSE h1

HandleContentLengthExceeded(h) == [h EXCEPT !.stopReasonOverride = "max_tokens"]

\* finish(usage); items is what thinkingParser.finish() returned.
Finish(h, items) ==
  IF h.responseEnded THEN h
  ELSE LET h1 == [h EXCEPT !.responseEnded = TRUE]
           h2 == IF h1.enableThinkingParsing THEN EmitAll(h1, items) ELSE h1
           h3 == CloseCurrentBlock(h2)
           stopReason == IF h3.stopReasonOverride # "null" THEN h3.stopReasonOverride
                         ELSE IF Len(h3.toolCalls) > 0 THEN "tool_use" ELSE "end_turn"
           h4 == Write(h3, Ev("message_delta", -1, stopReason))
       IN [Write(h4, Ev("message_stop", -1, "null")) EXCEPT !.state = "message_ended"]

EncInit ==
  /\ encPc = "idle"
  /\ handler = NewHandler(TRUE)
  /\ encChunks = 0


\* handleClaudeStream start(controller): the handler is built and
\* sendMessageStart() is called before any decoder callback.
EncStart ==
  /\ encPc = "idle"
  /\ \E thinkingEnabled \in BOOLEAN :
       handler' = SendMessageStart(NewHandler(thinkingEnabled))
  /\ encPc' = "streaming"
  /\ UNCHANGED encChunks

\* onChunk(text): a text chunk.
EncOnText ==
  /\ encPc = "streaming"
  /\ encChunks < MaxChunks
  /\ \E items \in ProcessResults : handler' = HandleContent(handler, items)
  /\ encChunks' = encChunks + 1
  /\ UNCHANGED encPc

\* onChunk('', toolUse): a complete tool call, or the content-length marker.
EncOnToolUse ==
  /\ encPc = "streaming"
  /\ encChunks < MaxChunks
  /\ \E id \in ToolIds \cup {ContentLengthExceededId}, hasName, hasInput \in BOOLEAN :
       handler' = IF id = ContentLengthExceededId
                    THEN HandleContentLengthExceeded(handler)
                    ELSE HandleToolUse(handler, id, hasName, hasInput, TRUE)
  /\ encChunks' = encChunks + 1
  /\ UNCHANGED encPc

\* onChunk('', undefined, undefined, toolUseStream): start, fragment or stop
\* of a streamed tool call.
EncOnToolUseStream ==
  /\ encPc = "streaming"
  /\ encChunks < MaxChunks
  /\ \E id \in ToolIds \cup {NoTool}, hasName, hasInput, isStop \in BOOLEAN :
       handler' = HandleToolUse(handler, id, hasName, hasInput, isStop)
  /\ encChunks' = encChunks + 1
  /\ UNCHANGED encPc

\* onComplete(usage): handler.finish(...), then controller.close().
EncOnComplete ==
  /\ encPc = "streaming"
  /\ \E items \in FinishResults : handler' = Finish(handler, items)
  /\ encPc' = "closed"
  /\ UNCHANGED encChunks

\* onError(error): the error event is enqueued directly, then controller.close().
EncOnError ==
  /\ encPc = "streaming"
  /\ handler' = Write(handler, Ev("error", -1, "null"))
  /\ encPc' = "closed"
  /\ UNCHANGED encChunks


(***************************************************************************)
(* AccountPool (lib/accountPool.ts).                                       *)
(*                                                                         *)
(* A ProxyAccount keeps the fields the scheduler reads.  cooldownUntil and *)
(* expiresAt are 0 where the code has undefined (both are tested for       *)
(* truthiness).  accountStats, accountHealth, lastUsed and the request     *)
(* windows only feed the scores of the balanced and smart policies, which  *)
(* are modelled as a free choice among the available accounts.             *)
(***************************************************************************)
Ids == {"a1", "a2"}
Null == "null"
Models == {"claude-sonnet-4.5", "claude-opus-4.5"}
Modes == {"smart", "priority", "balanced"}
ErrorTypes == {"network", "quota", "auth", "banned", "other"}

\* model.toLowerCase().includes('opus')
IsOpus(model) == model = "claude-opus-4.5"

NoPoolCall == [op |-> "none", model |-> Null, ret |-> [id |-> Null], path |-> "none"]

PoolInit ==
  /\ order = <<>>
  /\ accounts = <<>>
  /\ inflightRequests = [id \in Ids |-> 0]
  /\ lastAutoReset = 0
  /\ loadBalancingMode = "smart"
  /\ lastCall = NoPoolCall
  /\ poolCalls = 0
  /\ bannedIds = {}

\* Array.from(this.accounts.values())
AccountList == [i \in 1..Len(order) |-> accounts[order[i]]]

SupportsModel_Always(account, model) == TRUE

SupportsModel(account, model) ==
  ~(IsOpus(model) /\ account.subscriptionType = "Free")

CheckAccountAvailability_IgnoreNeedsRefresh(account, t) ==
  /\ ~account.disabled
  /\ ~account.quotaExhausted
  /\ ~(account.cooldownUntil # 0 /\ account.cooldownUntil > t)
  /\ ~(account.errorCount >= maxErrorCount)
  /\ ~(account.expiresAt # 0 /\ account.expiresAt < t /\ t - account.expiresAt > expiryGraceMs)

\* checkAccountAvailability(account, now).available
CheckAccountAvailability(account, t) ==
  /\ ~account.disabled
  /\ ~account.quotaExhausted
  /\ ~(account.cooldownUntil # 0 /\ account.cooldownUntil > t)
  /\ ~(account.errorCount >= maxErrorCount)
  /\ ~(account.expiresAt # 0 /\ account.expiresAt < t /\ t - account.expiresAt > expiryGraceMs)
  /\ account.isAvailable

\* getAccountWithShortestCooldown: the first account with the least wait
CooldownWait(account, t) == Max(0, account.cooldownUntil - t)
GetAccountWithShortestCooldown(list, t) ==
  LET i == CHOOSE i \in 1..Len(list) :
             /\ \A j \in 1..Len(list) : CooldownWait(list[i], t) <= CooldownWait(list[j], t)
             /\ \A j \in 1..(i - 1) : CooldownWait(list[j], t) > CooldownWait(list[i], t)
  IN list[i]

\* selfHeal(): whether it applies, and the accounts after it
ErrorDisabled(account) ==
  ~account.disabled /\ ~account.quotaExhausted /\ account.errorCount >= maxErrorCount

SelfHealApplies(accs, t) ==
  /\ DOMAIN accs # {}
  /\ \A id \in DOMAIN accs : ~CheckAccountAvailability(accs[id], t)
  /\ \E id \in DOMAIN accs : ErrorDisabled(accs[id])

SelfHealed(accs) ==
  [id \in DOMAIN accs |->
     IF ErrorDisabled(accs[id])
       THEN [accs[id] EXCEPT !.isAvailable = TRUE,
                             !.errorCount = @ \div 2,
                             !.cooldownUntil = 0]
       ELSE accs[id]]

ResetAccounts_ClearDisabled(accs) ==
  [id \in DOMAIN accs |->
     [accs[id] EXCEPT !.isAvailable = TRUE, !.errorCount = 0, !.cooldownUntil = 0,
                      !.disabled = FALSE]]

\* reset(): the accounts after it
ResetAccounts(accs) ==
  [id \in DOMAIN accs |->
     [accs[id] EXCEPT !.isAvailable = TRUE, !.errorCount = 0, !.cooldownUntil = 0]]

\* checkAutoReset(now): the accounts and lastAutoReset after it
CheckAutoReset(accs, last, t) ==
  IF t - last < autoResetIntervalMs THEN [accounts |-> accs, lastAutoReset |-> last]
  ELSE IF DOMAIN accs # {} /\ \A id \in DOMAIN accs : ~CheckAccountAvailability(accs[id], t)
    THEN [accounts |-> IF SelfHealApplies(accs, t) THEN SelfHealed(accs) ELSE ResetAccounts(accs),
          lastAutoReset |-> t]
    ELSE [accounts |-> accs, lastAutoReset |-> last]

\* the first element of a non-empty list with the least errorCount:
\* list.sort((a, b) => a.errorCount - b.errorCount)[0], the sort being stable
LeastErrors(list) ==
  LET i == CHOOSE i \in 1..Len(list) :
             /\ \A j \in 1..Len(list) : list[i].errorCount <= list[j].errorCount
             /\ \A j \in 1..(i - 1) : list[j].errorCount > list[i].errorCount
  IN list[i]

FallbackCandidate(account) ==
  ~account.disabled /\ ~account.quotaExhausted /\ account.errorCount < maxErrorCount + 2

Usable(account) == ~account.disabled /\ ~account.quotaExhausted

NullAccount == [id |-> Null]

ZeroDowntimeFallback_GiveUp(list, t) ==
  LET shortestCooldown == GetAccountWithShortestCooldown(list, t)
      candidates == SelectSeq(list, FallbackCandidate)
  IN IF shortestCooldown.cooldownUntil # 0 /\ shortestCooldown.cooldownUntil - t < nearCooldownMs
       THEN [account |-> shortestCooldown,
             stored |-> [shortestCooldown EXCEPT !.isAvailable = TRUE, !.cooldownUntil = 0]]
     ELSE IF candidates # <<>>
       THEN LET leastErrors == LeastErrors(candidates)
            IN [account |-> leastErrors,
                stored |-> [leastErrors EXCEPT !.isAvailable = TRUE,
                                               !.errorCount = Max(0, @ - 1),
                                               !.cooldownUntil = 0]]
     ELSE [account |-> NullAccount, stored |-> NullAccount]

\* zeroDowntimeFallback(accountList, now) for a non-empty list: the account
\* object returned and the object stored under its id.
ZeroDowntimeFallback(list, t) ==
  LET shortestCooldown == GetAccountWithShortestCooldown(list, t)
      candidates == SelectSeq(list, FallbackCandidate)
      usableAccounts == SelectSeq(list, Usable)
  IN IF shortestCooldown.cooldownUntil # 0 /\ shortestCooldown.cooldownUntil - t < nearCooldownMs
       THEN [account |-> shortestCooldown,
             stored |-> [shortestCooldown EXCEPT !.isAvailable = TRUE, !.cooldownUntil = 0]]
     ELSE IF candidates # <<>>
       THEN LET leastErrors == LeastErrors(candidates)
            IN [account |-> leastErrors,
                stored |-> [leastErrors EXCEPT !.isAvailable = TRUE,
                                               !.errorCount = Max(0, @ - 1),
                                               !.cooldownUntil = 0]]
     ELSE LET forceAccount == IF usableAccounts # <<>> THEN usableAccounts[1] ELSE list[1]
          IN [account |-> forceAccount,
              stored |-> [forceAccount EXCEPT !.isAvailable = TRUE,
                                              !.errorCount = 0,
                                              !.cooldownUntil = 0]]

\* acquireAccount(id) / releaseAccount(id): the inflight map after the call.
\* (The request window the acquire also appends to is not modelled.)
Acquired(inflight, id) == [inflight EXCEPT ![id] = @ + 1]
Released(inflight, id) == [inflight EXCEPT ![id] = Max(0, @ - 1)]

\* The accounts a policy may return out of the available ones: the first in
\* priority mode; in balanced and smart mode the choice depends on scores the
\* model does not keep (and on Math.random()), so it may be any of them.
Selectable(availableAccounts, mode) ==
  IF mode = "priority" \/ Len(availableAccounts) = 1
    THEN {availableAccounts[1]}
    ELSE {availableAccounts[i] : i \in 1..Len(availableAccounts)}

\* getNextAccount(model): every outcome the call can have, as the account
\* returned, the path taken and the pool after the call.
GetNextAccountOutcomes(model) ==
  LET accountList == AccountList
      Outcome(account, path, accs, last) ==
        [account |-> account, path |-> path, accounts |-> accs, lastAutoReset |-> last,
         inflight |-> IF account = NullAccount THEN inflightRequests
                      ELSE Acquired(inflightRequests, account.id)]
  IN IF Len(accountList) = 0
       THEN {Outcome(NullAccount, "empty", accounts, lastAutoReset)}
     ELSE IF Len(accountList) = 1
       THEN LET account == accountList[1]
            IN IF CheckAccountAvailability(account, now)
                 THEN {Outcome(account, "single", accounts, lastAutoReset)}
                 ELSE {Outcome(account, "single-forced",
                               [accounts EXCEPT ![account.id] =
                                  [account EXCEPT !.isAvailable = TRUE,
                                                  !.errorCount = Max(0, @ - 1),
                                                  !.cooldownUntil = 0]],
                               lastAutoReset)}
     ELSE LET after == CheckAutoReset(accounts, lastAutoReset, now)
              Eligible(a) == CheckAccountAvailability(a, now) /\ SupportsModel(a, model)
              availableAccounts == SelectSeq(accountList, Eligible)
          IN IF availableAccounts = <<>>
               THEN LET fallback == ZeroDowntimeFallback(accountList, now)
                    IN {Outcome(fallback.account, "fallback",
                                IF fallback.account = NullAccount THEN after.accounts
                                ELSE [after.accounts EXCEPT ![fallback.account.id] = fallback.stored],
                                after.lastAutoReset)}
               ELSE {Outcome(selected, "selected", after.accounts, after.lastAutoReset) :
                       selected \in Selectable(availableAccounts, loadBalancingMode)}

ObservePoolCall(call) ==
  /\ poolCalls < MaxCalls
  /\ poolCalls' = poolCalls + 1
  /\ lastCall' = call

GetNextAccount ==
  /\ \E model \in Models :
       \E out \in GetNextAccountOutcomes(model) :
         /\ accounts' = out.accounts
         /\ lastAutoReset' = out.lastAutoReset
         /\ inflightRequests' = out.inflight
         /\ ObservePoolCall([op |-> "getNextAccount", model |-> model,
                             ret |-> out.account, path |-> out.path])
  /\ UNCHANGED <<order, loadBalancingMode, bannedIds, now>>

\* addAccount(account); an id the pool already holds is overwritten in place
\* (Map.set keeps its position in the iteration order).  The object passed
\* is a fresh one (admin POST) or a persisted one (loadAccountsFromStorage),
\* of which the subscription type and the token's expiry vary.
NewAccount(id, subscriptionType, expiresAt) ==
  [id |-> id, isAvailable |-> TRUE, disabled |-> FALSE, quotaExhausted |-> FALSE,
   errorCount |-> 0, cooldownUntil |-> 0, expiresAt |-> expiresAt,
   subscriptionType |-> subscriptionType]

AddAccount ==
  /\ \E id \in Ids, subscriptionType \in {"Free", "Pro"},
        expiresAt \in {0, StartTime + PersistedExpiryMs} :
       /\ accounts' = [i \in DOMAIN accounts \cup {id} |->
                         IF i = id THEN NewAccount(id, subscriptionType, expiresAt)
                         ELSE accounts[i]]
       /\ order' = IF id \in DOMAIN accounts THEN order ELSE Append(order, id)
       /\ inflightRequests' = [inflightRequests EXCEPT ![id] = 0]
       /\ bannedIds' = bannedIds \ {id}
  /\ ObservePoolCall(NoPoolCall)
  /\ UNCHANGED <<lastAutoReset, loadBalancingMode, now>>

RemoveAccount ==
  /\ \E id \in DOMAIN accounts :
       /\ accounts' = [i \in DOMAIN accounts \ {id} |-> accounts[i]]
       /\ order' = SelectSeq(order, LAMBDA i : i # id)
       /\ inflightRequests' = [inflightRequests EXCEPT ![id] = 0]
       /\ bannedIds' = bannedIds \ {id}
  /\ ObservePoolCall(NoPoolCall)
  /\ UNCHANGED <<lastAutoReset, loadBalancingMode, now>>

\* updateAccount(id, updates) as refreshAccountToken calls it: a new
\* accessToken and expiresAt.
TokenUpdated(account, expiresAt) ==
  [account EXCEPT !.isAvailable = TRUE, !.errorCount = 0, !.cooldownUntil = 0,
                  !.expiresAt = expiresAt]

UpdateAccountToken ==
  /\ \E id \in DOMAIN accounts, expiresInMs \in {StartTime + refreshedTokenMs - now} :
       accounts' = [accounts EXCEPT ![id] = TokenUpdated(@, now + expiresInMs)]
  /\ ObservePoolCall(NoPoolCall)
  /\ UNCHANGED <<order, inflightRequests, lastAutoReset, loadBalancingMode, bannedIds, now>>

\* updateAccount(id, {disabled}) as the admin PUT calls it.
UpdateAccountDisabled ==
  /\ \E id \in DOMAIN accounts, disabled \in BOOLEAN :
       /\ accounts' = [accounts EXCEPT ![id].disabled = disabled]
       /\ bannedIds' = IF disabled THEN bannedIds ELSE bannedIds \ {id}
  /\ ObservePoolCall(NoPoolCall)
  /\ UNCHANGED <<order, inflightRequests, lastAutoReset, loadBalancingMode, now>>

ReleaseAccount ==
  /\ \E id \in Ids : inflightRequests' = Released(inflightRequests, id)
  /\ ObservePoolCall(NoPoolCall)
  /\ UNCHANGED <<order, accounts, lastAutoReset, loadBalancingMode, bannedIds, now>>

\* recordSuccess(id): the account after the call
SuccessRecorded(account) ==
  [account EXCEPT !.errorCount = 0, !.isAvailable = TRUE, !.cooldownUntil = 0]

RecordSuccess ==
  /\ \E id \in Ids :
       /\ inflightRequests' = Released(inflightRequests, id)
       /\ accounts' = IF id \in DOMAIN accounts
                        THEN [accounts EXCEPT ![id] = SuccessRecorded(@)]
                        ELSE accounts
  /\ ObservePoolCall(NoPoolCall)
  /\ UNCHANGED <<order, lastAutoReset, loadBalancingMode, bannedIds, now>>

\* recordError(id, errorType): the account after the call
ErrorRecorded(account, errorType, t) ==
  CASE errorType = "network" -> account
    [] errorType = "banned" ->
         [account EXCEPT !.errorCount = @ + 1, !.isAvailable = FALSE,
                         !.quotaExhausted = TRUE, !.disabled = TRUE]
    [] errorType = "quota" ->
         [account EXCEPT !.errorCount = @ + 1, !.quotaExhausted = TRUE, !.isAvailable = FALSE]
    [] errorType = "auth" ->
         [account EXCEPT !.errorCount = @ + 1, !.isAvailable = FALSE]
    [] OTHER ->
         [account EXCEPT !.errorCount = @ + 1,
                         !.cooldownUntil = IF account.errorCount + 1 >= maxErrorCount
                                             THEN t + cooldownMs ELSE @]

RecordError ==
  /\ \E id \in Ids, errorType \in ErrorTypes :
       /\ inflightRequests' = Released(inflightRequests, id)
       /\ accounts' = IF id \in DOMAIN accounts
                        THEN [accounts EXCEPT ![id] = ErrorRecorded(@, errorType, now)]
                        ELSE accounts
       /\ bannedIds' = IF id \in DOMAIN accounts /\ errorType = "banned"
                         THEN bannedIds \cup {id} ELSE bannedIds
  /\ ObservePoolCall(NoPoolCall)
  /\ UNCHANGED <<order, lastAutoReset, loadBalancingMode, now>>

MarkNeedsRefresh ==
  /\ \E id \in DOMAIN accounts : accounts' = [accounts EXCEPT ![id].isAvailable = FALSE]
  /\ ObservePoolCall(NoPoolCall)
  /\ UNCHANGED <<order, inflightRequests, lastAutoReset, loadBalancingMode, bannedIds, now>>

\* markRefreshComplete(id, success, usage, permanent): the account after the
\* call; hasRemaining says that usage was passed with limit - current > 0.
RefreshCompleted(account, success, hasRemaining, permanent, t) ==
  IF success
    THEN [account EXCEPT !.isAvailable = TRUE, !.errorCount = 0, !.cooldownUntil = 0,
                         !.quotaExhausted = @ /\ ~hasRemaining]
  ELSE IF permanent
    THEN [account EXCEPT !.isAvailable = FALSE, !.disabled = TRUE, !.quotaExhausted = TRUE]
    ELSE [account EXCEPT !.isAvailable = FALSE, !.cooldownUntil = t + refreshCooldownMs]

MarkRefreshComplete ==
  /\ \E id \in DOMAIN accounts, success, hasRemaining, permanent \in BOOLEAN :
       accounts' = [accounts EXCEPT ![id] =
                      RefreshCompleted(@, success, hasRemaining, permanent, now)]
  /\ ObservePoolCall(NoPoolCall)
  /\ UNCHANGED <<order, inflightRequests, lastAutoReset, loadBalancingMode, bannedIds, now>>

\* checkQuotaRecovery(id, usage)
CheckQuotaRecovery ==
  /\ \E id \in DOMAIN accounts, hasRemaining \in BOOLEAN :
       accounts' = IF accounts[id].quotaExhausted /\ hasRemaining
                     THEN [accounts EXCEPT ![id] =
                             [@ EXCEPT !.isAvailable = TRUE, !.errorCount = 0,
                                       !.cooldownUntil = 0, !.quotaExhausted = FALSE]]
                     ELSE accounts
  /\ ObservePoolCall(NoPoolCall)
  /\ UNCHANGED <<order, inflightRequests, lastAutoReset, loadBalancingMode, bannedIds, now>>

SelfHeal ==
  /\ accounts' = IF SelfHealApplies(accounts, now) THEN SelfHealed(accounts) ELSE accounts
  /\ ObservePoolCall(NoPoolCall)
  /\ UNCHANGED <<order, inflightRequests, lastAutoReset, loadBalancingMode, bannedIds, now>>

Reset ==
  /\ accounts' = ResetAccounts(accounts)
  /\ ObservePoolCall(NoPoolCall)
  /\ UNCHANGED <<order, inflightRequests, lastAutoReset, loadBalancingMode, bannedIds, now>>

SetLoadBalancingMode ==
  /\ \E mode \in Modes : loadBalancingMode' = mode
  /\ ObservePoolCall(NoPoolCall)
  /\ UNCHANGED <<order, accounts, inflightRequests, lastAutoReset, bannedIds, now>>

PoolTick ==
  /\ now + PoolTickMs <= StartTime + MaxPoolTicks * PoolTickMs
  /\ now' = now + PoolTickMs
  /\ lastCall' = NoPoolCall
  /\ UNCHANGED <<poolVars, poolCalls, bannedIds>>

(***************************************************************************)
(* The request handlers of main.ts: handleChatCompletions and              *)
(* handleAnthropicMessages with their streaming and non-streaming          *)
(* branches.  The two dialects make the same pool and breaker calls; they  *)
(* differ in the response bodies, which are not kept here.  A handler runs *)
(* from one await to the next in one step: selecting the account (with the *)
(* token refresh it may wait for), then the breaker check, the translation *)
(* and the start of the upstream call, then the upstream call's outcome.   *)
(* The clock stands still here: the requests are taken within one          *)
(* resetTimeout window of the breaker.  The observers of the breaker's and *)
(* of the pool's calls are not kept here.                                  *)
(***************************************************************************)
Reqs == {"r1", "r2"}
Credentials == {"pool", "pinned", "refreshToken"}

\* a request no handler is running for
NoRequest == [pc |-> "idle", account |-> Null, isStream |-> FALSE, acquired |-> FALSE]

GwInit ==
  /\ requests = [r \in Reqs |-> NoRequest]
  /\ served = 0
  /\ upstreamStatus = 0

\* refreshAccountToken(account) for an account that has a refresh token: the
\* pool after the call, for each answer of the auth endpoint.
RefreshOutcomes(accs, id, t) ==
  { [accs EXCEPT ![id] = RefreshCompleted(TokenUpdated(@, t + refreshedTokenMs),
                                          TRUE, FALSE, FALSE, t)],
    [accs EXCEPT ![id] = RefreshCompleted(@, FALSE, FALSE, FALSE, t)],
    [accs EXCEPT ![id] = RefreshCompleted(@, FALSE, FALSE, TRUE, t)] }

\* ensureValidToken(account): the pool after the call
EnsureValidToken(accs, id, t) ==
  IF accs[id].expiresAt # 0 /\ accs[id].expiresAt - t < tokenRefreshWindowMs
    THEN RefreshOutcomes([accs EXCEPT ![id].isAvailable = FALSE], id, t)
    ELSE {accs}

\* POST /api/accounts for an id the pool does not hold: addAccount of a fresh
\* account, then refreshAccountToken.
GwAddAccount ==
  /\ \E id \in Ids \ DOMAIN accounts :
       /\ accounts' \in RefreshOutcomes(
                          [i \in DOMAIN accounts \cup {id} |->
                             IF i = id THEN NewAccount(id, Null, 0) ELSE accounts[i]],
                          id, now)
       /\ order' = Append(order, id)
       /\ inflightRequests' = [inflightRequests EXCEPT ![id] = 0]
  /\ UNCHANGED <<lastAutoReset, loadBalancingMode, poolObs, now>>

\* The slots are interchangeable: a request is taken in the first free one.
FreeSlot(r) ==
  /\ requests[r].pc = "idle"
  /\ \A q \in Reqs : (requests[q].pc = "idle" /\ q # r) => r = "r1"
  /\ served < MaxRequests

Begin(r, id, isStream, acquired) ==
  /\ requests' = [requests EXCEPT ![r] = [pc |-> "selected", account |-> id,
                                          isStream |-> isStream, acquired |-> acquired]]
  /\ served' = served + 1

End(r) == requests' = [requests EXCEPT ![r] = NoRequest]

\* selectAccount(model) without a usable pinned account: getNextAccount, then
\* ensureValidToken.
GwSelectFromPool(r) ==
  /\ FreeSlot(r)
  /\ \E model \in Models, isStream \in BOOLEAN, pinned \in {Null} \cup (Ids \ DOMAIN accounts) :
       \E out \in GetNextAccountOutcomes(model) :
         /\ out.account # NullAccount
         /\ accounts' \in EnsureValidToken(out.accounts, out.account.id, now)
         /\ lastAutoReset' = out.lastAutoReset
         /\ inflightRequests' = out.inflight
         /\ Begin(r, out.account.id, isStream, TRUE)
  /\ UNCHANGED <<order, loadBalancingMode, poolObs, cbVars, cbObs, now>>

\* selectAccount on an empty pool: getNextAccount returns null, the handler
\* throws and its catch records a breaker failure.
GwNoAccount(r) ==
  /\ FreeSlot(r)
  /\ \E model \in Models : \A out \in GetNextAccountOutcomes(model) : out.account = NullAccount
  /\ served' = served + 1
  /\ CbRecordFailureEffect
  /\ UNCHANGED <<cbObs, now>>
  /\ UNCHANGED <<requests, poolVars, poolObs>>

\* selectAccount(model, accountId) with an account of the pool pinned by the
\* API key: getAccount, then ensureValidToken.
GwSelectPinned(r) ==
  /\ FreeSlot(r)
  /\ \E id \in DOMAIN accounts, isStream \in BOOLEAN :
       /\ accounts' \in EnsureValidToken(accounts, id, now)
       /\ Begin(r, id, isStream, FALSE)
  /\ UNCHANGED <<order, inflightRequests, lastAutoReset, loadBalancingMode, poolObs,
                 cbVars, cbObs, now>>

\* getAccountFromRefreshToken(refreshToken): the account of the pool with this
\* refresh token, or else a temporary account added for it and refreshed.  An
\* id stands for the refresh token of the account it names.
GwSelectByRefreshToken(r) ==
  /\ FreeSlot(r)
  /\ \E id \in Ids, isStream \in BOOLEAN :
       /\ IF id \in DOMAIN accounts
            THEN /\ accounts' \in EnsureValidToken(accounts, id, now)
                 /\ UNCHANGED <<order, inflightRequests>>
            ELSE /\ accounts' \in RefreshOutcomes(
                                    [i \in DOMAIN accounts \cup {id} |->
                                       IF i = id THEN NewAccount(id, Null, 0) ELSE accounts[i]],
                                    id, now)
                 /\ order' = Append(order, id)
                 /\ inflightRequests' = [inflightRequests EXCEPT ![id] = 0]
       /\ Begin(r, id, isStream, FALSE)
  /\ UNCHANGED <<lastAutoReset, loadBalancingMode, poolObs, cbVars, cbObs, now>>

\* circuitBreaker.canExecute() returns false: the handler answers 503 / 529.
GwReject(r) ==
  /\ requests[r].pc = "selected"
  /\ ~CanExecuteResult
  /\ CanExecuteEffect
  /\ UNCHANGED <<failureCount, lastFailTime, cbObs, now>>
  /\ End(r)
  /\ UNCHANGED <<served, poolVars, poolObs>>

\* canExecute() returns true and openaiToKiro / claudeToKiro throws: the
\* handler's catch records a breaker failure.  A breaker that canExecute moved
\* from OPEN to HALF_OPEN is moved back to OPEN by that failure.
GwTranslateError(r) ==
  /\ requests[r].pc = "selected"
  /\ CanExecuteResult
  /\ IF cbState = "OPEN"
       THEN /\ cbState' = "OPEN"
            /\ successCount' = 0
            /\ lastFailTime' = now
            /\ UNCHANGED failureCount
       ELSE CbRecordFailureEffect
  /\ End(r)
  /\ UNCHANGED <<served, poolVars, poolObs, cbObs, now>>

\* canExecute() returns true and the payload is built: the upstream call is
\* started (callKiroApiStream) or awaited (callKiroApi).
GwCallUpstream(r) ==
  /\ requests[r].pc = "selected"
  /\ CanExecuteResult
  /\ CanExecuteEffect
  /\ UNCHANGED <<failureCount, lastFailTime, cbObs, now>>
  /\ requests' = [requests EXCEPT ![r].pc = "upstream"]
  /\ UNCHANGED <<served, poolVars, poolObs>>

\* statuses callKiroApiStream ends with onError for: 402 (QUOTA_EXHAUSTED, all
\* endpoints abandoned) and a server error on every attempt.  The callbacks do
\* not look at the status.
UpstreamErrors == {402, 500}

\* onComplete of a stream, or callKiroApi returning: circuitBreaker.recordSuccess
\* and accountPool.recordSuccess.
GwUpstreamSuccess(r) ==
  /\ requests[r].pc = "upstream"
  /\ CbRecordSuccessEffect
  /\ UNCHANGED <<lastFailTime, cbObs, now>>
  /\ LET id == requests[r].account
     IN /\ inflightRequests' = Released(inflightRequests, id)
        /\ accounts' = IF id \in DOMAIN accounts
                         THEN [accounts EXCEPT ![id] = SuccessRecorded(@)]
                         ELSE accounts
  /\ End(r)
  /\ UNCHANGED <<served, order, lastAutoReset, loadBalancingMode, poolObs>>

\* onError of a stream: circuitBreaker.recordFailure and
\* accountPool.recordError(id, 'other').
GwStreamError(r) ==
  /\ requests[r].pc = "upstream"
  /\ requests[r].isStream
  /\ CbRecordFailureEffect
  /\ UNCHANGED <<cbObs, now>>
  /\ LET id == requests[r].account
     IN /\ inflightRequests' = Released(inflightRequests, id)
        /\ accounts' = IF id \in DOMAIN accounts
                         THEN [accounts EXCEPT ![id] = ErrorRecorded(@, "other", now)]
                         ELSE accounts
  /\ End(r)
  /\ UNCHANGED <<served, order, lastAutoReset, loadBalancingMode, poolObs>>

\* callKiroApi throws in a non-streaming handler: the handler's catch records
\* a breaker failure.
GwNonStreamError(r) ==
  /\ requests[r].pc = "upstream"
  /\ ~requests[r].isStream
  /\ CbRecordFailureEffect
  /\ UNCHANGED <<cbObs, now>>
  /\ End(r)
  /\ UNCHANGED <<served, poolVars, poolObs>>

(***************************************************************************)
(* Strings, as sequences of characters, and the string functions the       *)
(* thinking parsers use.  Positions are 1-based; 0 stands for indexOf's -1. *)
(***************************************************************************)
\* the newline character
NL == "LF"
THINKING_START_TAG == <<"<", "t", "h", "i", "n", "k", "i", "n", "g", ">">>
THINKING_END_TAG == <<"<", "/", "t", "h", "i", "n", "k", "i", "n", "g", ">">>
THINKING_END_WITH_NL == THINKING_END_TAG \o <<NL, NL>>
\* stream.ts QUOTE_CHARS, cut to the characters the inputs are made of
QUOTE_CHARS == {"#", "<", ">", "/"}
Whitespace == {" ", NL}
MAX_THINKING_CHARS == 100000
SAFE_THRESHOLD == 256

Take(str, n) == SubSeq(str, 1, n)
Drop(str, n) == SubSeq(str, n + 1, Len(str))

\* str.startsWith(pat, pos - 1)
StartsWithAt(str, pat, pos) ==
  /\ pos >= 1
  /\ pos + Len(pat) - 1 <= Len(str)
  /\ \A i \in 1..Len(pat) : str[pos + i - 1] = pat[i]

\* str.indexOf(pat, from - 1) + 1
IndexOf(str, pat, from) ==
  LET hits == {pos \in from..Len(str) : StartsWithAt(str, pat, pos)}
  IN IF hits = {} THEN 0 ELSE CHOOSE pos \in hits : \A q \in hits : pos <= q

\* str.lastIndexOf(pat, upTo - 1) + 1
LastIndexOf(str, pat, upTo) ==
  LET hits == {pos \in 1..Min(upTo, Len(str)) : StartsWithAt(str, pat, pos)}
  IN IF hits = {} THEN 0 ELSE CHOOSE pos \in hits : \A q \in hits : pos >= q

RECURSIVE TrimStart(_)
TrimStart(str) ==
  IF str # <<>> /\ Head(str) \in Whitespace THEN TrimStart(Tail(str)) ELSE str

RECURSIVE TrimEnd(_)
TrimEnd(str) ==
  IF str # <<>> /\ str[Len(str)] \in Whitespace THEN TrimEnd(Take(str, Len(str) - 1)) ELSE str

Trim(str) == TrimEnd(TrimStart(str))

IsPrecededByQuoteChar(buffer, pos) ==
  pos > 1 /\ buffer[pos - 1] \in QUOTE_CHARS

FindRealThinkingStartTag(buffer) ==
  LET hits == {pos \in 1..Len(buffer) :
                 /\ StartsWithAt(buffer, THINKING_START_TAG, pos)
                 /\ ~IsPrecededByQuoteChar(buffer, pos)}
  IN IF hits = {} THEN 0 ELSE CHOOSE pos \in hits : \A q \in hits : pos <= q

RECURSIVE FindRealThinkingEndTagFrom(_, _)
FindRealThinkingEndTagFrom(buffer, searchStart) ==
  LET pos == IndexOf(buffer, THINKING_END_TAG, searchStart)
      afterContent == Drop(buffer, pos - 1 + Len(THINKING_END_TAG))
  IN IF pos = 0 THEN 0
     ELSE IF IsPrecededByQuoteChar(buffer, pos)
       THEN FindRealThinkingEndTagFrom(buffer, pos + 1)
     ELSE IF StartsWithAt(afterContent, <<NL, NL>>, 1) THEN pos
     ELSE IF Len(afterContent) < 2 THEN 0
     ELSE FindRealThinkingEndTagFrom(buffer, pos + 1)

FindRealThinkingEndTag(buffer) == FindRealThinkingEndTagFrom(buffer, 1)

FindRealThinkingEndTagAtBufferEnd(buffer) ==
  LET hits == {pos \in 1..Len(buffer) :
                 /\ StartsWithAt(buffer, THINKING_END_TAG, pos)
                 /\ ~IsPrecededByQuoteChar(buffer, pos)
                 /\ LET afterContent == Drop(buffer, pos - 1 + Len(THINKING_END_TAG))
                    IN Trim(afterContent) = <<>> \/ StartsWithAt(afterContent, <<NL>>, 1)}
  IN IF hits = {} THEN 0 ELSE CHOOSE pos \in hits : \A q \in hits : pos <= q

\* the longest proper prefix of tag the buffer ends with
PendingTagSuffix(buffer, tag) ==
  LET lens == {l \in 1..Min(Len(buffer), Len(tag) - 1) :
                 \A i \in 1..l : buffer[Len(buffer) - l + i] = tag[i]}
  IN IF lens = {} THEN 0 ELSE CHOOSE l \in lens : \A m \in lens : l >= m

Item(type, content) == [type |-> type, content |-> content]

\* the concatenated content of the items of one type
RECURSIVE ContentOf(_, _)
ContentOf(items, type) ==
  IF items = <<>> THEN <<>>
  ELSE (IF Head(items).type = type THEN Head(items).content ELSE <<>>)
         \o ContentOf(Tail(items), type)

(***************************************************************************)
(* ThinkingBufferParser (lib/stream.ts).  overflowWarned only guards a log *)
(* line and is not kept.                                                   *)
(***************************************************************************)
NewParser ==
  [buffer |-> <<>>, inThinkBlock |-> FALSE, pendingStartTagChars |-> 0, thinkingLength |-> 0]

Parsed(parser, results) == [parser |-> parser, results |-> results]

\* process(text): the while loop, from a parser whose buffer has the text
\* appended, up to the break or the empty buffer.
RECURSIVE ProcessLoop(_, _)
ProcessLoop(parser, results) ==
  IF Len(parser.buffer) = 0 THEN Parsed(parser, results)
  ELSE IF parser.pendingStartTagChars > 0 /\ Len(parser.buffer) < parser.pendingStartTagChars
    THEN Parsed([parser EXCEPT !.pendingStartTagChars = @ - Len(parser.buffer),
                               !.buffer = <<>>], results)
  ELSE
    LET p == [parser EXCEPT !.buffer = Drop(@, parser.pendingStartTagChars),
                            !.pendingStartTagChars = 0]
        buffer == p.buffer
    IN IF buffer = <<>> THEN Parsed(p, results)
       ELSE IF ~p.inThinkBlock
         THEN LET start == FindRealThinkingStartTag(buffer)
                  pending == PendingTagSuffix(buffer, THINKING_START_TAG)
                  emitLen == Len(buffer) - pending
                  before == Take(buffer, start - 1)
              IN IF start = 0
                   THEN IF pending = Len(buffer) /\ pending > 0
                          THEN Parsed([p EXCEPT !.pendingStartTagChars =
                                                   Len(THINKING_START_TAG) - pending,
                                                !.inThinkBlock = TRUE,
                                                !.thinkingLength = 0,
                                                !.buffer = <<>>], results)
                        ELSE IF emitLen <= 0 THEN Parsed(p, results)
                        ELSE ProcessLoop([p EXCEPT !.buffer = Drop(buffer, emitLen)],
                                         Append(results, Item("text", Take(buffer, emitLen))))
                   ELSE ProcessLoop(
                          [p EXCEPT !.buffer = Drop(buffer, start - 1 + Len(THINKING_START_TAG)),
                                    !.inThinkBlock = TRUE, !.thinkingLength = 0],
                          IF Trim(before) # <<>> THEN Append(results, Item("text", before))
                                                 ELSE results)
       ELSE IF p.thinkingLength > MAX_THINKING_CHARS
         THEN ProcessLoop([p EXCEPT !.buffer = <<>>, !.inThinkBlock = FALSE,
                                    !.thinkingLength = 0],
                          Append(results, Item("thinking", buffer)))
       ELSE IF /\ Len(buffer) > SAFE_THRESHOLD
               /\ LastIndexOf(buffer, <<"<", "/">>, Len(buffer) - Len(THINKING_END_TAG) - 1) = 0
         THEN LET safeLen == Len(buffer) - (Len(THINKING_END_TAG) + 2)
              IN ProcessLoop([p EXCEPT !.buffer = Drop(buffer, safeLen),
                                       !.thinkingLength = @ + safeLen],
                             Append(results, Item("thinking", Take(buffer, safeLen))))
       ELSE LET end == FindRealThinkingEndTag(buffer)
                pending == Max(PendingTagSuffix(buffer, THINKING_END_TAG),
                               PendingTagSuffix(buffer, THINKING_END_WITH_NL))
                emitLen == Len(buffer) - pending
                thinkChunk == Take(buffer, end - 1)
            IN IF end = 0
                 THEN IF emitLen <= 0 THEN Parsed(p, results)
                      ELSE ProcessLoop([p EXCEPT !.buffer = Drop(buffer, emitLen),
                                                 !.thinkingLength = @ + emitLen],
                                       Append(results, Item("thinking", Take(buffer, emitLen))))
                 ELSE ProcessLoop(
                        [p EXCEPT !.buffer = Drop(buffer, end - 1 + Len(THINKING_END_TAG)),
                                  !.inThinkBlock = FALSE, !.thinkingLength = 0],
                        IF thinkChunk # <<>> THEN Append(results, Item("thinking", thinkChunk))
                                             ELSE results)

\* process(text)
Process(parser, text) ==
  ProcessLoop([parser EXCEPT !.buffer = @ \o text], <<>>)

\* finish()
FinishParser(parser) ==
  LET buffer == parser.buffer
      end == FindRealThinkingEndTagAtBufferEnd(buffer)
      thinkChunk == Take(buffer, end - 1)
      remaining == Trim(Drop(buffer, end - 1 + Len(THINKING_END_TAG)))
      results ==
        IF buffer = <<>> THEN <<>>
        ELSE IF ~parser.inThinkBlock THEN <<Item("text", buffer)>>
        ELSE IF end = 0 THEN <<Item("thinking", buffer)>>
        ELSE (IF thinkChunk # <<>> THEN <<Item("thinking", thinkChunk)>> ELSE <<>>)
               \o (IF remaining # <<>> THEN <<Item("text", remaining)>> ELSE <<>>)
  IN Parsed([parser EXCEPT !.buffer = <<>>, !.inThinkBlock = FALSE, !.thinkingLength = 0],
            results)

\* The strings fed to the parser: up to MaxPieces pieces, each a tag, a part
\* of a tag or plain characters.
Pieces ==
  { THINKING_START_TAG, THINKING_END_TAG, <<NL, NL>>, <<"a">>, <<"<", "t", "h">>, <<" ">> }
InputsOf(n) == UNION {[1..k -> Pieces] : k \in 0..n}

RECURSIVE Joined(_)
Joined(pieces) == IF pieces = <<>> THEN <<>> ELSE Head(pieces) \o Joined(Tail(pieces))

\* what the parser emits for str fed as one chunk: process(str), then finish()
WholeItems(str) ==
  LET fed == Process(NewParser, str)
  IN fed.results \o FinishParser(fed.parser).results

\* One run of the parser on a string fed in chunks.
TpInit ==
  tp = [pc |-> "idle", parser |-> NewParser, input |-> <<>>, rest |-> <<>>, fed |-> 0,
        items |-> <<>>]

TpStart ==
  /\ tp.pc = "idle"
  /\ \E pieces \in InputsOf(MaxPieces) :
       tp' = [pc |-> "feeding", parser |-> NewParser, input |-> Joined(pieces),
              rest |-> Joined(pieces), fed |-> 0, items |-> <<>>]

TpProcess ==
  /\ tp.pc = "feeding"
  /\ \E n \in 1..Len(tp.rest) :
       /\ tp.fed + 1 = MaxFeeds => n = Len(tp.rest)
       /\ LET fed == Process(tp.parser, Take(tp.rest, n))
          IN tp' = [tp EXCEPT !.parser = fed.parser, !.rest = Drop(tp.rest, n),
                              !.fed = @ + 1, !.items = @ \o fed.results]

TpFinish ==
  /\ tp.pc = "feeding"
  /\ tp.rest = <<>>
  /\ LET fin == FinishParser(tp.parser)
     IN tp' = [tp EXCEPT !.pc = "finished", !.parser = fin.parser, !.items = @ \o fin.results]

(***************************************************************************)
(* parseThinkingContent (lib/types.ts), the decoder's tag parser, and the   *)
(* way one Anthropic streaming response carries upstream content to the     *)
(* client: parseEventStream's assistantResponseEvent branch and end-of-      *)
(* stream flush, the onChunk and onComplete callbacks of handleClaudeStream, *)
(* ClaudeStreamHandler.handleContent and finish.                             *)
(***************************************************************************)
NewThinkingState == [inThinking |-> FALSE, buffer |-> <<>>, thinkingLength |-> 0]

Chunk(text, isThinking) == [text |-> text, isThinking |-> isThinking]

\* the while loop of parseThinkingContent, from a state whose buffer has the
\* content appended
RECURSIVE ParseThinkingLoop(_, _, _)
ParseThinkingLoop(state, results, thinkingEnabled) ==
  LET buffer == state.buffer
      startIdx == IndexOf(buffer, THINKING_START_TAG, 1)
      endIdx == IndexOf(buffer, THINKING_END_TAG, 1)
      Done(st, res) == [state |-> st, results |-> res]
      Push(res, n) == IF n > 0 /\ thinkingEnabled
                        THEN Append(res, Chunk(Take(buffer, n), TRUE)) ELSE res
      Restart == ParseThinkingLoop(
                   [state EXCEPT !.buffer = Drop(buffer, startIdx - 1 + Len(THINKING_START_TAG)),
                                 !.thinkingLength = 0],
                   Push(results, startIdx - 1), thinkingEnabled)
  IN IF buffer = <<>> THEN Done(state, results)
     ELSE IF ~state.inThinking
       THEN IF startIdx = 0
              THEN LET safeLen == Len(buffer) - PendingTagSuffix(buffer, THINKING_START_TAG)
                   IN IF safeLen > 0
                        THEN Done([state EXCEPT !.buffer = Drop(buffer, safeLen)],
                                  Append(results, Chunk(Take(buffer, safeLen), FALSE)))
                        ELSE Done(state, results)
              ELSE ParseThinkingLoop(
                     [state EXCEPT !.buffer = Drop(buffer, startIdx - 1 + Len(THINKING_START_TAG)),
                                   !.inThinking = TRUE, !.thinkingLength = 0],
                     IF startIdx > 1 THEN Append(results, Chunk(Take(buffer, startIdx - 1), FALSE))
                                     ELSE results,
                     thinkingEnabled)
     ELSE IF state.thinkingLength > MAX_THINKING_CHARS /\ endIdx = 0
       THEN ParseThinkingLoop([state EXCEPT !.buffer = <<>>, !.inThinking = FALSE,
                                            !.thinkingLength = 0],
                              Push(results, Len(buffer)), thinkingEnabled)
     ELSE IF endIdx = 0
       THEN IF startIdx # 0 THEN Restart
            ELSE LET safeLen == Len(buffer) - PendingTagSuffix(buffer, THINKING_END_TAG)
                 IN IF safeLen > 0 /\ thinkingEnabled
                      THEN Done([state EXCEPT !.buffer = Drop(buffer, safeLen),
                                              !.thinkingLength = @ + safeLen],
                                Push(results, safeLen))
                      ELSE Done(state, results)
     ELSE IF startIdx # 0 /\ startIdx < endIdx THEN Restart
     ELSE ParseThinkingLoop(
            [state EXCEPT !.buffer = Drop(buffer, endIdx - 1 + Len(THINKING_END_TAG)),
                          !.inThinking = FALSE, !.thinkingLength = 0],
            Push(results, endIdx - 1), thinkingEnabled)

\* parseThinkingContent(content, state, thinkingEnabled)
ParseThinkingContent(content, state, thinkingEnabled) ==
  ParseThinkingLoop([state EXCEPT !.buffer = @ \o content], <<>>, thinkingEnabled)

\* the deltas emitThinking / emitText write for the items of the parser
DeltasOf(items) ==
  [i \in 1..Len(items) |->
     Item(IF items[i].type = "thinking" THEN "thinking_delta" ELSE "text_delta",
          items[i].content)]

TypesOf(items) == [i \in 1..Len(items) |-> items[i].type]

\* onChunk(text, undefined, isThinking) of handleClaudeStream for each chunk in
\* turn: handler.handleContent(text); isThinking is not read.
RECURSIVE OnChunks(_, _)
OnChunks(st, chunks) ==
  IF chunks = <<>> THEN st
  ELSE LET fed == Process(st.parser, Head(chunks).text)
       IN OnChunks([st EXCEPT !.parser = fed.parser,
                              !.handler = HandleContent(@, TypesOf(fed.results)),
                              !.deltas = @ \o DeltasOf(fed.results)],
                   Tail(chunks))

\* what the upstream wraps in the tags, and what it sends after the close tag
ThinkingTexts == {<<"s">>, <<"s", "s">>}
AnswerTexts == {<<"a">>, <<NL, NL, "a">>}

PipeInit ==
  pipe = [pc |-> "idle", thinking |-> <<>>, answer |-> <<>>, rest |-> <<>>, events |-> 0,
          thinkingState |-> NewThinkingState, parser |-> NewParser,
          handler |-> NewHandler(TRUE), deltas |-> <<>>]

\* A thinking-enabled request: start(controller) builds the handler and sends
\* message_start.
PipeStart ==
  /\ pipe.pc = "idle"
  /\ \E thinking \in ThinkingTexts, answer \in AnswerTexts :
       pipe' = [pipe EXCEPT !.pc = "streaming", !.thinking = thinking, !.answer = answer,
                            !.rest = THINKING_START_TAG \o thinking \o THINKING_END_TAG \o answer,
                            !.handler = SendMessageStart(NewHandler(TRUE))]

\* one assistantResponseEvent carrying the next characters of the content
PipeContentEvent ==
  /\ pipe.pc = "streaming"
  /\ \E n \in 1..Len(pipe.rest) :
       /\ pipe.events + 1 = MaxFeeds => n = Len(pipe.rest)
       /\ LET parsed == ParseThinkingContent(Take(pipe.rest, n), pipe.thinkingState, TRUE)
          IN pipe' = OnChunks([pipe EXCEPT !.rest = Drop(pipe.rest, n),
                                           !.events = @ + 1,
                                           !.thinkingState = parsed.state],
                              parsed.results)

\* end of the upstream stream: the decoder flushes its buffer through onChunk
\* and calls onComplete, which calls handler.finish.
PipeComplete ==
  /\ pipe.pc = "streaming"
  /\ pipe.rest = <<>>
  /\ LET flushed == IF pipe.thinkingState.buffer # <<>>
                      THEN OnChunks(pipe, <<Chunk(pipe.thinkingState.buffer,
                                                  pipe.thinkingState.inThinking)>>)
                      ELSE pipe
         fin == FinishParser(flushed.parser)
     IN pipe' = [flushed EXCEPT !.pc = "closed",
                                !.thinkingState.buffer = <<>>,
                                !.parser = fin.parser,
                                !.handler = Finish(@, TypesOf(fin.results)),
                                !.deltas = @ \o DeltasOf(fin.results)]

(***************************************************************************)
(* The OpenAI translator and the payload sanitizers (openaiToKiro,          *)
(* buildKiroPayload, sanitizeConversation, validateToolResults,             *)
(* deepSanitizePayload).  A message keeps its kind, its content and the     *)
(* tool uses or tool results it carries; a content is one of a few strings, *)
(* of which "" and " " are the ones trim() makes empty.  The request has no *)
(* system message and declares no tools.                                    *)
(***************************************************************************)
MaxMessages == 4

UserInputMessage(content, toolResults) ==
  [kind |-> "user", content |-> content, toolResults |-> toolResults, toolUses |-> <<>>]

AssistantResponseMessage(content, toolUses) ==
  [kind |-> "assistant", content |-> content, toolResults |-> <<>>, toolUses |-> toolUses]

ToolResult(toolUseId, status) == [toolUseId |-> toolUseId, status |-> status]

HELLO_MESSAGE == UserInputMessage("Hello", <<>>)
CONTINUE_MESSAGE == UserInputMessage("Continue", <<>>)
UNDERSTOOD_MESSAGE == AssistantResponseMessage("understood", <<>>)

\* content.trim() === ''
IsBlank(content) == content \in {"", " "}

isUserInputMessage(msg) == msg.kind = "user"
isAssistantResponseMessage(msg) == msg.kind = "assistant"
hasToolResults(msg) == msg.toolResults # <<>>
hasToolUses(msg) == msg.toolUses # <<>>

SeqRange(seq) == {seq[i] : i \in 1..Len(seq)}

ResultIds(toolResults) == {toolResults[i].toolUseId : i \in 1..Len(toolResults)}

createFailedToolUseMessage(toolUseIds) ==
  UserInputMessage("", [i \in 1..Len(toolUseIds) |-> ToolResult(toolUseIds[i], "error")])

hasMatchingToolResults(toolUses, toolResults) ==
  \/ toolUses = <<>>
  \/ /\ toolResults # <<>>
     /\ SeqRange(toolUses) \subseteq ResultIds(toolResults)

findOrphanedToolUseIds(messages) ==
  LET resultIds == UNION {ResultIds(messages[i].toolResults) : i \in 1..Len(messages)}
  IN UNION {{id \in SeqRange(messages[i].toolUses) : id \notin resultIds} :
              i \in 1..(Len(messages) - 1)}

removeOrphanedToolUses(messages) ==
  LET orphanedIds == findOrphanedToolUseIds(messages)
  IN [i \in 1..Len(messages) |->
        [messages[i] EXCEPT !.toolUses = SelectSeq(@, LAMBDA id : id \notin orphanedIds)]]

\* the for loop of sanitizeConversation from message i on
RECURSIVE SanitizeLoop(_, _, _, _)
SanitizeLoop(messages, i, result, firstUserSeen) ==
  IF i > Len(messages) THEN result
  ELSE LET msg == messages[i]
           skipped == /\ isUserInputMessage(msg)
                      /\ firstUserSeen
                      /\ IsBlank(msg.content)
                      /\ ~hasToolResults(msg)
           filler == IF result = <<>> THEN <<>>
                     ELSE IF isUserInputMessage(result[Len(result)]) /\ isUserInputMessage(msg)
                       THEN <<UNDERSTOOD_MESSAGE>>
                     ELSE IF isAssistantResponseMessage(result[Len(result)])
                             /\ isAssistantResponseMessage(msg)
                       THEN <<CONTINUE_MESSAGE>>
                     ELSE <<>>
           unanswered == /\ isAssistantResponseMessage(msg)
                         /\ hasToolUses(msg)
                         /\ \/ i = Len(messages)
                            \/ ~isUserInputMessage(messages[i + 1])
                            \/ ~hasToolResults(messages[i + 1])
                            \/ ~hasMatchingToolResults(msg.toolUses, messages[i + 1].toolResults)
           failed == IF unanswered THEN <<createFailedToolUseMessage(msg.toolUses)>> ELSE <<>>
       IN IF skipped
            THEN SanitizeLoop(messages, i + 1, result, firstUserSeen)
            ELSE SanitizeLoop(messages, i + 1, result \o filler \o <<msg>> \o failed,
                              firstUserSeen \/ isUserInputMessage(msg))

sanitizeConversation(messages) ==
  IF messages = <<>> THEN <<HELLO_MESSAGE>>
  ELSE LET result == SanitizeLoop(messages, 1, <<>>, FALSE)
           headed == IF result = <<>> \/ ~isUserInputMessage(result[1])
                       THEN <<HELLO_MESSAGE>> \o result ELSE result
           ended == IF ~isUserInputMessage(headed[Len(headed)])
                      THEN Append(headed, CONTINUE_MESSAGE) ELSE headed
       IN removeOrphanedToolUses(ended)

validateToolResults(toolResults, history) ==
  LET allToolUseIds == UNION {SeqRange(history[i].toolUses) : i \in 1..Len(history)}
      pairedResultIds == UNION {ResultIds(history[i].toolResults) : i \in 1..Len(history)}
  IN SelectSeq(toolResults, LAMBDA r : /\ r.toolUseId \in allToolUseIds
                                       /\ r.toolUseId \notin pairedResultIds)

KiroPayload(currentMessage, history) == [currentMessage |-> currentMessage, history |-> history]

\* buildKiroPayload(content, ..., history, tools = [], toolResults, ...)
buildKiroPayload(content, history, toolResults) ==
  LET finalContent == IF ~IsBlank(content) THEN content
                      ELSE IF toolResults # <<>> THEN "" ELSE "Continue"
      currentMessage == UserInputMessage(finalContent, validateToolResults(toolResults, history))
      sanitizedMessages == sanitizeConversation(Append(history, currentMessage))
      sanitizedHistory == Take(sanitizedMessages, Len(sanitizedMessages) - 1)
      last == sanitizedMessages[Len(sanitizedMessages)]
      finalCurrentMessage == IF isUserInputMessage(last) THEN last
                             ELSE UserInputMessage(IF finalContent = "" THEN "Continue"
                                                   ELSE finalContent, <<>>)
  IN KiroPayload(finalCurrentMessage, sanitizedHistory)

\* the messages of an OpenAI request
OpenAIUser(content) ==
  [role |-> "user", content |-> content, tool_calls |-> <<>>, tool_call_id |-> ""]
OpenAIAssistant(content, tool_calls) ==
  [role |-> "assistant", content |-> content, tool_calls |-> tool_calls, tool_call_id |-> ""]
OpenAITool(tool_call_id) ==
  [role |-> "tool", content |-> "r", tool_calls |-> <<>>, tool_call_id |-> tool_call_id]

OpenAIMessages ==
  {OpenAIUser(c) : c \in {"q", " "}}
    \cup {OpenAIAssistant(c, tc) : c \in {"x", ""},
                                   tc \in {<<>>, <<"t1">>, <<"t2">>, <<"t1", "t2">>, <<"">>}}
    \cup {OpenAITool(id) : id \in ToolIds}

\* the for loop of openaiToKiro over nonSystemMessages from message i on
RECURSIVE OpenaiLoop(_, _, _, _, _)
OpenaiLoop(messages, i, history, toolResults, currentContent) ==
  IF i > Len(messages)
    THEN [history |-> history, toolResults |-> toolResults, currentContent |-> currentContent]
  ELSE LET msg == messages[i]
           isLast == i = Len(messages)
       IN IF msg.role = "user"
            THEN LET mergedContent == IF msg.content = "" THEN "Continue" ELSE msg.content
                 IN IF isLast
                      THEN OpenaiLoop(messages, i + 1, history, toolResults, mergedContent)
                      ELSE OpenaiLoop(messages, i + 1,
                                      Append(history, UserInputMessage(mergedContent, <<>>)),
                                      toolResults, currentContent)
          ELSE IF msg.role = "assistant"
            THEN LET assistantContent ==
                       IF IsBlank(msg.content) /\ msg.tool_calls # <<>> THEN " "
                       ELSE IF IsBlank(msg.content) THEN "I understand."
                       ELSE msg.content
                 IN OpenaiLoop(messages, i + 1,
                               Append(history,
                                      AssistantResponseMessage(assistantContent, msg.tool_calls)),
                               toolResults, currentContent)
          ELSE LET collected == IF msg.tool_call_id # ""
                                  THEN Append(toolResults, ToolResult(msg.tool_call_id, "success"))
                                  ELSE toolResults
                   shouldFlush == isLast \/ messages[i + 1].role # "tool"
               IN IF shouldFlush /\ collected # <<>> /\ ~isLast
                    THEN OpenaiLoop(messages, i + 1,
                                    Append(history,
                                           UserInputMessage("Tool results provided.", collected)),
                                    <<>>, currentContent)
                    ELSE OpenaiLoop(messages, i + 1, history, collected, currentContent)

openaiToKiro(messages) ==
  LET looped == OpenaiLoop(messages, 1, <<>>, <<>>, "")
      history == looped.history
      afterAssistant == IF /\ history # <<>>
                           /\ isAssistantResponseMessage(history[Len(history)])
                           /\ looped.currentContent = ""
                          THEN "Continue." ELSE looped.currentContent
      withResults == IF afterAssistant = "" /\ looped.toolResults # <<>>
                       THEN "Tool results provided." ELSE afterAssistant
      finalContent == IF withResults = "" THEN "Continue." ELSE withResults
  IN buildKiroPayload(finalContent, history, looped.toolResults)

\* toolResults deduplicated as by a Map keyed by toolUseId: the place of the
\* first entry of an id, the value of the last
DedupToolResults(valid) ==
  LET firsts == SelectSeq([i \in 1..Len(valid) |-> i],
                          LAMBDA i : \A j \in 1..(i - 1) : valid[j].toolUseId # valid[i].toolUseId)
      LastOf(id) == valid[CHOOSE i \in 1..Len(valid) :
                            /\ valid[i].toolUseId = id
                            /\ \A j \in (i + 1)..Len(valid) : valid[j].toolUseId # id]
  IN [k \in 1..Len(firsts) |-> LastOf(valid[firsts[k]].toolUseId)]

\* the first loop of deepSanitizePayload on one history message
DeepCleanMessage(msg) ==
  IF isAssistantResponseMessage(msg)
    THEN [msg EXCEPT !.content = IF IsBlank(@) THEN "I understand." ELSE @,
                     !.toolUses = SelectSeq(@, LAMBDA id : ~IsBlank(id))]
    ELSE [msg EXCEPT !.content = IF IsBlank(@) /\ msg.toolResults = <<>> THEN "Continue" ELSE @,
                     !.toolResults = DedupToolResults(
                                       SelectSeq(@, LAMBDA r : ~IsBlank(r.toolUseId)))]

\* the second loop of deepSanitizePayload
RECURSIVE Alternate(_, _, _)
Alternate(cleaned, i, alternated) ==
  IF i > Len(cleaned) THEN alternated
  ELSE LET msg == cleaned[i]
           filler == IF alternated # <<>> /\ alternated[Len(alternated)].kind = msg.kind
                       THEN IF isUserInputMessage(msg)
                              THEN <<AssistantResponseMessage("understood", <<>>)>>
                              ELSE <<UserInputMessage("Continue", <<>>)>>
                       ELSE <<>>
       IN Alternate(cleaned, i + 1, alternated \o filler \o <<msg>>)

deepSanitizePayload(payload) ==
  LET current == [payload.currentMessage EXCEPT !.content = IF IsBlank(@) THEN "Continue" ELSE @]
      cleaned == [i \in 1..Len(payload.history) |-> DeepCleanMessage(payload.history[i])]
      alternated == Alternate(cleaned, 1, <<>>)
      headed == IF alternated # <<>> /\ ~isUserInputMessage(alternated[1])
                  THEN <<HELLO_MESSAGE>> \o alternated ELSE alternated
      ended == IF headed # <<>> /\ isUserInputMessage(headed[Len(headed)])
                 THEN Append(headed, AssistantResponseMessage("understood", <<>>)) ELSE headed
  IN KiroPayload(current, ended)

NoPayload == KiroPayload(UserInputMessage("", <<>>), <<>>)

TrInit ==
  conv = [pc |-> "building", messages |-> <<>>, payload |-> NoPayload, built |-> NoPayload,
        sanitizations |-> 0]

\* the client puts one more message into the request it is going to send
TrAppendMessage ==
  /\ conv.pc = "building"
  /\ Len(conv.messages) < MaxMessages
  /\ \E msg \in OpenAIMessages : conv' = [conv EXCEPT !.messages = Append(@, msg)]

\* handleOpenAI translates the request
TrTranslate ==
  /\ conv.pc = "building"
  /\ conv.messages # <<>>
  /\ conv' = [conv EXCEPT !.pc = "translated", !.payload = openaiToKiro(conv.messages),
                      !.built = openaiToKiro(conv.messages)]

\* callKiroApiStream deep-sanitizes the payload when it is called, and once
\* more when it retries after a content-length error
MaxSanitizations == 2

TrDeepSanitize ==
  /\ conv.pc = "translated"
  /\ conv.sanitizations < MaxSanitizations
  /\ conv' = [conv EXCEPT !.payload = deepSanitizePayload(@), !.sanitizations = @ + 1]

(***************************************************************************)
(* The history compressor of lib/stream.ts: extractMessageText, the cache   *)
(* key of doCompressHistory, findKeepBoundary, readCache, writeCache and    *)
(* compressHistory.  The text of a message is a sequence of tokens.         *)
(* keepMessageCount and toolLookback have the smallest values               *)
(* updateCompressorConfig accepts.  sha256Short is taken to be free of      *)
(* collisions.  The calls come one after the other, none while another is   *)
(* in progress, and within the time to live of the cache entries.           *)
(***************************************************************************)
keepMessageCount == 4
toolLookback == 4
batchMessages == 8
MIN_BATCH_SIZE == 3
KeySliceChars == 500
ResultSliceChars == 200
MaxCompressions == 2

Slice(str, n) == Take(str, Min(n, Len(str)))

StringMessage(role, text) == [role |-> role, isArray |-> FALSE, text |-> text, blocks |-> <<>>]
BlocksMessage(role, blocks) == [role |-> role, isArray |-> TRUE, text |-> <<>>, blocks |-> blocks]

TextBlock(text) == [type |-> "text", text |-> text, name |-> "", input |-> ""]
ToolUseBlock(name, input) == [type |-> "tool_use", text |-> <<>>, name |-> name, input |-> input]
ToolResultBlock(text) == [type |-> "tool_result", text |-> text, name |-> "", input |-> ""]

\* the part extractMessageText pushes for one block; <<>> when it pushes none
BlockPart(block) ==
  IF block.type = "text" /\ block.text # <<>> THEN <<block.text>>
  ELSE IF block.type = "tool_use" /\ block.name # "" THEN <<<<"[Tool: ", block.name, "]">>>>
  ELSE IF block.type = "tool_result"
    THEN <<<<"[Result: ">> \o Slice(block.text, ResultSliceChars) \o <<"]">>>>
  ELSE <<>>

RECURSIVE JoinWith(_, _)
JoinWith(parts, sep) ==
  IF parts = <<>> THEN <<>>
  ELSE IF Len(parts) = 1 THEN parts[1]
  ELSE parts[1] \o <<sep>> \o JoinWith(Tail(parts), sep)

RECURSIVE BlockParts(_)
BlockParts(blocks) ==
  IF blocks = <<>> THEN <<>> ELSE BlockPart(Head(blocks)) \o BlockParts(Tail(blocks))

extractMessageText(msg) ==
  IF ~msg.isArray THEN msg.text ELSE JoinWith(BlockParts(msg.blocks), NL)

sha256Short(content) == <<"sha256", content>>

\* cacheKey of doCompressHistory
CacheKey(conversationId, toCompress) ==
  <<conversationId,
    sha256Short(JoinWith([i \in 1..Len(toCompress) |->
                            Slice(extractMessageText(toCompress[i]), KeySliceChars)], "|"))>>

HasToolUse(msg) ==
  /\ msg.role = "assistant"
  /\ msg.isArray
  /\ \E i \in 1..Len(msg.blocks) : msg.blocks[i].type = "tool_use"

\* findToolUseBoundary(messages, startIdx), indices counted from 0
findToolUseBoundary(messages, startIdx) ==
  LET found == {i \in startIdx..(Len(messages) - 1) : HasToolUse(messages[i + 1])}
  IN IF found = {} THEN startIdx
     ELSE LET i == CHOOSE j \in found : \A k \in found : j <= k
          IN IF i + 1 < Len(messages) THEN i + 2 ELSE i + 1

findKeepBoundary(messages, keepCount) ==
  LET baseKeep == Max(keepMessageCount, keepCount)
      boundary == findToolUseBoundary(messages,
                                      Max(0, Max(0, Len(messages) - baseKeep) - toolLookback))
  IN IF boundary <= 0 THEN Max(0, Len(messages) - baseKeep) ELSE boundary

\* a cache is a set of entries, at most one for a key
Entry(key, summary) == [key |-> key, summary |-> summary]
Cached(cache, key) == \E e \in cache : e.key = key
SummaryOf(cache, key) == (CHOOSE e \in cache : e.key = key).summary
Put(cache, key, summary) == {e \in cache : e.key # key} \cup {Entry(key, summary)}

readCache_NeverHit(c, key) ==
  [cmp |-> [c EXCEPT !.stats.requestCount = @ + 1, !.stats.cacheMisses = @ + 1],
   summary |-> Null]

\* readCache(key): the compressor after the read and the summary, Null on a miss
readCache(c, key) ==
  LET counted == [c EXCEPT !.stats.requestCount = @ + 1]
  IN IF Cached(c.incrementalCache, key)
       THEN [cmp |-> [counted EXCEPT !.stats.cacheHits = @ + 1, !.stats.prefixHits = @ + 1],
             summary |-> SummaryOf(c.incrementalCache, key)]
     ELSE IF Cached(c.memoryCache, key)
       THEN [cmp |-> [counted EXCEPT !.stats.cacheHits = @ + 1],
             summary |-> SummaryOf(c.memoryCache, key)]
     ELSE IF Cached(c.kv, key)
       THEN [cmp |-> [counted EXCEPT !.stats.cacheHits = @ + 1,
                                     !.memoryCache = Put(@, key, SummaryOf(c.kv, key))],
             summary |-> SummaryOf(c.kv, key)]
     ELSE [cmp |-> [counted EXCEPT !.stats.cacheMisses = @ + 1], summary |-> Null]

writeCache(c, key, summary) ==
  [c EXCEPT !.memoryCache = Put(@, key, summary), !.kv = Put(@, key, summary)]

SummaryMessage(summary) == StringMessage("user", <<"[Previous conversation summary]", summary>>)
AckMessage == StringMessage("assistant", <<"I understand the context. Let me continue.">>)

\* splitIntoBatches(toCompress).length for a prefix without a tool use at a
\* batch end
BatchCount(toCompress) == (Len(toCompress) + batchMessages - 1) \div batchMessages

NoCompression ==
  [messages |-> <<>>, conversationId |-> "", over |-> FALSE, boundary |-> 0, key |-> <<>>,
   toCompress |-> <<>>, result |-> <<>>, upstream |-> 0, hits |-> 0]

\* compressHistory(account, messages, conversationId) with needsCompression
\* answering over; the summary the upstream writes differs from call to call
compressHistory(c, messages, conversationId, over) ==
  LET boundary == findKeepBoundary(messages, keepMessageCount)
      toCompress == Take(messages, boundary)
      toKeep == Drop(messages, boundary)
      cacheKey == CacheKey(conversationId, toCompress)
      read == readCache(c, cacheKey)
      batches == BatchCount(toCompress)
      combinedSummary == <<"summary", c.upstreamCalls + 1>>
      called == [messages |-> messages, conversationId |-> conversationId, over |-> over,
                 boundary |-> boundary, key |-> <<>>, toCompress |-> <<>>,
                 result |-> messages, upstream |-> 0, hits |-> 0]
      Done(after, record) == [after EXCEPT !.calls = @ + 1, !.prev = c.last, !.last = record]
  IN IF ~over \/ boundary <= MIN_BATCH_SIZE THEN Done(c, called)
     ELSE IF read.summary # Null
       THEN Done(read.cmp,
                 [called EXCEPT !.key = cacheKey, !.toCompress = toCompress,
                                !.result = <<SummaryMessage(read.summary), AckMessage>> \o toKeep,
                                !.hits = read.cmp.stats.cacheHits - c.stats.cacheHits])
     ELSE Done([writeCache(read.cmp, cacheKey, combinedSummary)
                  EXCEPT !.incrementalCache = Put(@, cacheKey, combinedSummary),
                         !.stats.compressionCount = @ + 1,
                         !.upstreamCalls = @ + batches],
               [called EXCEPT !.key = cacheKey, !.toCompress = toCompress,
                              !.result = <<SummaryMessage(combinedSummary), AckMessage>> \o toKeep,
                              !.upstream = batches])

\* the conversations: a user message, two or three more messages, and five
\* plain turns
UserA == StringMessage("user", <<"a">>)
UserAA == StringMessage("user", <<"a", "|", "a">>)
AssistantX == BlocksMessage("assistant", <<ToolUseBlock("f", "x")>>)
AssistantY == BlocksMessage("assistant", <<ToolUseBlock("f", "y")>>)
FreeMessages == {UserA, UserAA, AssistantX, AssistantY}
PlainTurns == <<StringMessage("assistant", <<"b">>), UserA, StringMessage("assistant", <<"b">>),
                UserA, StringMessage("assistant", <<"b">>)>>

Conversations ==
  {<<m1, m2, m3>> \o PlainTurns : m1 \in {UserA, UserAA}, m2 \in FreeMessages, m3 \in FreeMessages}
    \cup {<<m1, m2, m3, m4>> \o PlainTurns :
            m1 \in {UserA, UserAA}, m2 \in FreeMessages, m3 \in FreeMessages, m4 \in FreeMessages}

ConversationIds == {"c1", "c2"}

CmpInit ==
  cmp = [incrementalCache |-> {}, memoryCache |-> {}, kv |-> {},
         stats |-> [requestCount |-> 0, cacheHits |-> 0, cacheMisses |-> 0, prefixHits |-> 0,
                    compressionCount |-> 0],
         upstreamCalls |-> 0, calls |-> 0, last |-> NoCompression, prev |-> NoCompression]

CmpCompressHistory ==
  /\ cmp.calls < MaxCompressions
  /\ \E messages \in Conversations, conversationId \in ConversationIds, over \in BOOLEAN :
       cmp' = compressHistory(cmp, messages, conversationId, over)

\* clearAllCaches
CmpClearAllCaches ==
  /\ cmp.calls < MaxCompressions
  /\ cmp.memoryCache # {}
  /\ cmp' = [cmp EXCEPT !.incrementalCache = {}, !.memoryCache = {},
                        !.last = NoCompression, !.prev = NoCompression]

\* ---- whole dialogues as the messages of a request: user and assistant take
\* turns, an assistant message is plain or a tool_use, and the user message
\* after a tool_use holds its tool_result.  The last message is a user
\* message or a plain assistant message (a prefill).
MaxDialogue == 12

UserResult == BlocksMessage("user", <<ToolResultBlock(<<"r">>)>>)
AssistantPlain == StringMessage("assistant", <<"b">>)

HasToolResult(msg) ==
  /\ msg.role = "user"
  /\ msg.isArray
  /\ \E i \in 1..Len(msg.blocks) : msg.blocks[i].type = "tool_result"

NextMessages(d) ==
  IF d[Len(d)].role = "user" THEN {AssistantPlain, AssistantX}
  ELSE IF HasToolUse(d[Len(d)]) THEN {UserResult} ELSE {UserA}

RECURSIVE DialoguesOf(_)
DialoguesOf(n) ==
  IF n = 1 THEN {<<UserA>>}
  ELSE UNION {{Append(d, m) : m \in NextMessages(d)} : d \in DialoguesOf(n - 1)}

Dialogues ==
  {d \in UNION {DialoguesOf(n) : n \in 1..MaxDialogue} : ~HasToolUse(d[Len(d)])}

\* compressHistory on a dialogue, with empty caches
CmpCompressDialogue ==
  /\ cmp.calls = 0
  /\ \E messages \in Dialogues, conversationId \in ConversationIds, over \in BOOLEAN :
       cmp' = compressHistory(cmp, messages, conversationId, over)

(***************************************************************************)
(* parseEventStream and callKiroApiStream (lib/types.ts): the frame decoder *)
(* with its resynchronisation, the tool buffers, the callbacks, and the     *)
(* attempts on the two endpoints.  A frame is its bytes; the JSON text of a *)
(* payload is one byte that names the event, 0 a text JSON.parse rejects.   *)
(* Every tool event carries the tool's name and no input.  The callbacks    *)
(* drive the two SSE handlers as handleClaudeStream and handleOpenAIStream  *)
(* do; a callback may throw.                                                *)
(***************************************************************************)
MAX_FRAME == 16777216
MIN_FRAME == 16
MAX_DECODE_ERRORS == 5
EndpointCount == 2
MaxReads == 4
MaxGarbage == 5

ContentEvent == [type |-> "assistantResponseEvent", toolUseId |-> "", stop |-> FALSE]
ToolUseEvent(toolUseId, stop) == [type |-> "toolUseEvent", toolUseId |-> toolUseId, stop |-> stop]
ErrorEvent == [type |-> "error", toolUseId |-> "", stop |-> FALSE]
SyntaxError == [type |-> "SyntaxError", toolUseId |-> "", stop |-> FALSE]

UpstreamEvents ==
  <<ContentEvent, ToolUseEvent("t1", FALSE), ToolUseEvent("t1", TRUE),
    ToolUseEvent("t2", FALSE), ToolUseEvent("t2", TRUE), ErrorEvent>>

\* prelude (total length, headers length 0, CRC), one payload byte, CRC
FrameOf(code) ==
  <<0, 0, 0, MIN_FRAME + 1>> \o <<0, 0, 0, 0>> \o <<0, 0, 0, 0>> \o <<code>> \o <<0, 0, 0, 0>>

\* JSON.parse(textDecoder.decode(payloadBytes))
PayloadEvent(payload) ==
  IF Len(payload) = 1 /\ payload[1] \in 1..Len(UpstreamEvents)
    THEN UpstreamEvents[payload[1]] ELSE SyntaxError

Low24(b, at) == b[at + 1] * 65536 + b[at + 2] * 256 + b[at + 3]

\* getUint32(0) is  b[1] * 2^24 + Low24(b, 1);  totalLength > MAX_FRAME || totalLength < 16
InvalidFrameSize(b) ==
  \/ b[1] >= 2
  \/ b[1] = 1 /\ Low24(b, 1) > 0
  \/ b[1] = 0 /\ Low24(b, 1) < MIN_FRAME

TotalLength(b) == b[1] * MAX_FRAME + Low24(b, 1)

\* headersLength > totalLength - 16
InvalidHeaders(b) == b[5] >= 1 \/ Low24(b, 5) > TotalLength(b) - MIN_FRAME

HeadersLength(b) == Low24(b, 5)

Call(cb, what, id) == [cb |-> cb, what |-> what, id |-> id]

NewDecoder ==
  [buffer |-> <<>>, consecutiveDecodeErrors |-> 0, processedIds |-> {}, toolBuffers |-> <<>>,
   thinkingState |-> NewThinkingState]

\* what the loop body hands back: the decoder, the callbacks it made, and
\* whether it threw
Outcome(d, calls, thrown) == [d |-> d, calls |-> calls, thrown |-> thrown]

\* the callbacks are made in turn; when chunkThrows, the first one throws
Calls(calls, chunkThrows) == IF chunkThrows /\ calls # <<>> THEN <<calls[1]>> ELSE calls
Throws(calls, chunkThrows) == chunkThrows /\ calls # <<>>

\* the assistantResponseEvent branch
OnAssistantResponse(d, chunkThrows) ==
  LET parsed == ParseThinkingContent(<<"a">>, d.thinkingState, FALSE)
      calls == [i \in 1..Len(parsed.results) |-> Call("onChunk", "text", "")]
  IN Outcome([d EXCEPT !.thinkingState = parsed.state],
             Calls(calls, chunkThrows), Throws(calls, chunkThrows))

\* the toolUseEvent branch
OnToolUse(d, tuId, isStop, chunkThrows) ==
  IF tuId \in d.processedIds THEN Outcome(d, <<>>, FALSE)
  ELSE LET isNew == tuId \notin SeqRange(d.toolBuffers)
           created == IF isNew THEN Append(d.toolBuffers, tuId) ELSE d.toolBuffers
           start == IF isNew THEN <<Call("onChunk", "start", tuId)>> ELSE <<>>
           removed == SelectSeq(created, LAMBDA id : id # tuId)
           stop == <<Call("onChunk", "stop", tuId), Call("onChunk", "toolUse", tuId)>>
       IN IF chunkThrows /\ isNew
            THEN Outcome([d EXCEPT !.toolBuffers = created], start, TRUE)
          ELSE IF ~isStop
            THEN Outcome([d EXCEPT !.toolBuffers = created], start, FALSE)
          ELSE IF chunkThrows
            THEN Outcome([d EXCEPT !.toolBuffers = removed], <<stop[1]>>, TRUE)
          ELSE Outcome([d EXCEPT !.toolBuffers = removed, !.processedIds = @ \cup {tuId}],
                       start \o stop, FALSE)

\* the body of  while (bufferUsed >= 16)  until it breaks or throws
RECURSIVE FrameLoop(_, _, _)
FrameLoop(d, calls, chunkThrows) ==
  LET b == d.buffer
      counted == [d EXCEPT !.consecutiveDecodeErrors = @ + 1]
      payload == SubSeq(b, 13 + HeadersLength(b), TotalLength(b) - 4)
      event == PayloadEvent(payload)
      handled == IF event.type = "assistantResponseEvent"
                   THEN OnAssistantResponse(d, chunkThrows /\ calls = <<>>)
                 ELSE IF event.type = "toolUseEvent"
                   THEN OnToolUse(d, event.toolUseId, event.stop, chunkThrows /\ calls = <<>>)
                 ELSE Outcome(d, <<>>, event.type = "error")
      consumed == [handled.d EXCEPT !.buffer = Drop(b, TotalLength(b)),
                                    !.consecutiveDecodeErrors = 0]
  IN IF Len(b) < MIN_FRAME THEN Outcome(d, calls, FALSE)
     ELSE IF InvalidFrameSize(b)
       THEN IF counted.consecutiveDecodeErrors >= MAX_DECODE_ERRORS
              THEN Outcome(counted, calls, TRUE)
              ELSE FrameLoop([counted EXCEPT !.buffer = Drop(b, 1)], calls, chunkThrows)
     ELSE IF Len(b) < TotalLength(b) THEN Outcome(d, calls, FALSE)
     ELSE IF InvalidHeaders(b)
       THEN IF counted.consecutiveDecodeErrors >= MAX_DECODE_ERRORS
              THEN Outcome(counted, calls, TRUE)
              ELSE FrameLoop([counted EXCEPT !.buffer = Drop(b, TotalLength(b))],
                             calls, chunkThrows)
     ELSE IF 12 + HeadersLength(b) >= TotalLength(b) - 4
       THEN FrameLoop([d EXCEPT !.buffer = Drop(b, TotalLength(b))], calls, chunkThrows)
     ELSE IF event.type = "SyntaxError"
       THEN IF counted.consecutiveDecodeErrors >= MAX_DECODE_ERRORS
              THEN Outcome(counted, calls, TRUE)
              ELSE FrameLoop([counted EXCEPT !.buffer = Drop(b, TotalLength(b))],
                             calls, chunkThrows)
     ELSE IF handled.thrown THEN Outcome(handled.d, calls \o handled.calls, TRUE)
     ELSE FrameLoop(consumed, calls \o handled.calls, chunkThrows)

\* after the read loop: the tool uses left in the buffers, the thinking
\* buffer, onComplete
EndOfStream(d, chunkThrows) ==
  LET incomplete == SelectSeq(d.toolBuffers, LAMBDA id : id \notin d.processedIds)
      tools == [i \in 1..Len(incomplete) |-> Call("onChunk", "toolUse", incomplete[i])]
      text == IF d.thinkingState.buffer # <<>> THEN <<Call("onChunk", "text", "")>> ELSE <<>>
      calls == tools \o text
  IN IF Throws(calls, chunkThrows)
       THEN Outcome(d, Calls(calls, chunkThrows), TRUE)
       ELSE Outcome([d EXCEPT !.processedIds = @ \cup SeqRange(incomplete),
                              !.toolBuffers = <<>>, !.thinkingState.buffer = <<>>],
                    calls \o <<Call("onComplete", "", "")>>, FALSE)

\* OpenAIStreamHandler, its tool calls only.  A tool_calls chunk is kept as
\* its index, the id it carries (the opening chunk only) and its kind.
ToolCallChunk(index, id, kind) == [index |-> index, id |-> id, kind |-> kind]

NewOpenAIHandler ==
  [currentToolCall |-> NoTool, toolCallIndex |-> 0, processedToolUseIds |-> {},
   toolCalls |-> <<>>, responseEnded |-> FALSE, entries |-> <<>>, chunks |-> <<>>,
   stopReasonOverride |-> "null"]

\* safeAdd(fragment) for a non-empty fragment: both branches write the chunk.
\* currentToolCall.index is toolCallIndex as it was when the call was opened,
\* and toolCallIndex moves only in finishToolCall, which clears currentToolCall.
OpenAISafeAdd(o) ==
  IF o.currentToolCall = NoTool THEN o
  ELSE [o EXCEPT !.chunks = Append(@, ToolCallChunk(o.toolCallIndex, NoTool, "arguments"))]

OpenAIFinishToolCall(o) ==
  IF o.currentToolCall = NoTool THEN o
  ELSE [o EXCEPT !.toolCalls = Append(@, o.currentToolCall), !.toolCallIndex = @ + 1,
                 !.currentToolCall = NoTool]

OpenAIHandleToolUse(o, id, hasName, hasInput, isStop) ==
  IF o.responseEnded THEN o
  ELSE IF id = NoTool /\ ~hasName THEN
    IF o.currentToolCall # NoTool
      THEN LET o1 == IF hasInput THEN OpenAISafeAdd(o) ELSE o
           IN IF isStop THEN OpenAIFinishToolCall(o1) ELSE o1
      ELSE o
  ELSE IF id # NoTool /\ hasName /\ o.currentToolCall = NoTool THEN
    IF id \in o.processedToolUseIds THEN o
    ELSE LET opened == [o EXCEPT !.processedToolUseIds = @ \cup {id},
                                 !.currentToolCall = id,
                                 !.entries = Append(@, id),
                                 !.chunks = Append(@, ToolCallChunk(o.toolCallIndex, id, "start"))]
             o1 == IF hasInput THEN OpenAISafeAdd(opened) ELSE opened
         IN IF isStop THEN OpenAIFinishToolCall(o1) ELSE o1
  ELSE
    LET o1 == IF o.currentToolCall # NoTool /\ hasInput THEN OpenAISafeAdd(o) ELSE o
    IN IF isStop /\ o1.currentToolCall # NoTool THEN OpenAIFinishToolCall(o1) ELSE o1

OpenAIHandleContentLengthExceeded(o) == [o EXCEPT !.stopReasonOverride = "length"]

\* finish(usage): the final chunk is kept with its finish_reason as its kind
OpenAIFinish(o) ==
  IF o.responseEnded THEN o
  ELSE LET finishReason == IF o.stopReasonOverride # "null" THEN o.stopReasonOverride
                           ELSE IF Len(o.toolCalls) > 0 THEN "tool_calls" ELSE "stop"
       IN [o EXCEPT !.responseEnded = TRUE,
                    !.chunks = Append(@, ToolCallChunk(-1, NoTool, finishReason))]

\* the onChunk, onComplete and onError callbacks of handleClaudeStream
ClaudeCallback(h, call) ==
  IF call.cb = "onComplete" THEN Finish(h, <<>>)
  ELSE IF call.cb = "onError" THEN Write(h, Ev("error", -1, "null"))
  ELSE IF call.what = "text" THEN HandleContent(h, <<"text">>)
  ELSE IF call.what = "toolUse" /\ call.id = ContentLengthExceededId
    THEN HandleContentLengthExceeded(h)
  ELSE IF call.what = "toolUse" THEN HandleToolUse(h, call.id, TRUE, TRUE, TRUE)
  ELSE IF call.what = "start" THEN HandleToolUse(h, call.id, TRUE, FALSE, FALSE)
  ELSE IF call.what = "fragment" THEN HandleToolUse(h, call.id, FALSE, TRUE, FALSE)
  ELSE HandleToolUse(h, call.id, FALSE, FALSE, TRUE)

\* the callbacks of handleOpenAIStream
OpenAICallback(o, call) ==
  IF call.cb = "onComplete" THEN OpenAIFinish(o)
  ELSE IF call.cb = "onError" \/ call.what = "text" THEN o
  ELSE IF call.what = "toolUse" /\ call.id = ContentLengthExceededId
    THEN OpenAIHandleContentLengthExceeded(o)
  ELSE IF call.what = "toolUse" THEN OpenAIHandleToolUse(o, call.id, TRUE, TRUE, TRUE)
  ELSE IF call.what = "start" THEN OpenAIHandleToolUse(o, call.id, TRUE, FALSE, FALSE)
  ELSE IF call.what = "fragment" THEN OpenAIHandleToolUse(o, call.id, FALSE, TRUE, FALSE)
  ELSE OpenAIHandleToolUse(o, call.id, FALSE, FALSE, TRUE)

RECURSIVE Deliver(_, _)
Deliver(st, calls) ==
  IF calls = <<>> THEN st
  ELSE Deliver([st EXCEPT !.calls = Append(@, Head(calls)),
                          !.claude = ClaudeCallback(@, Head(calls)),
                          !.openai = OpenAICallback(@, Head(calls))],
               Tail(calls))

GarbageBytes == {0, 1, 255}
GarbageRuns ==
  {[i \in 1..n |-> g] : g \in GarbageBytes, n \in {1, MaxGarbage - 1, MaxGarbage}}

DecInit ==
  dec = [pc |-> "idle", attempt |-> 0, reads |-> 0, d |-> NewDecoder, calls |-> <<>>,
         claude |-> NewHandler(FALSE), openai |-> NewOpenAIHandler,
         contentFed |-> 0, framesFed |-> 0, run |-> 0, maxRun |-> 0, clean |-> TRUE,
         between |-> TRUE, completed |-> FALSE]

\* handleClaudeStream / handleOpenAIStream start and callKiroApiStream connects
\* to the first endpoint
DecConnect ==
  /\ dec.pc = "idle"
  /\ dec' = [dec EXCEPT !.pc = "reading", !.attempt = 1,
                        !.claude = SendMessageStart(NewHandler(FALSE))]

\* what follows a throw inside parseEventStream's try: onError; when onError
\* throws too, parseEventStream rejects and callKiroApiStream goes on to the
\* next endpoint or, after the last one, calls onError(lastError)
Caught(st, errorThrows) ==
  LET failed == Deliver(st, <<Call("onError", "", "")>>)
  IN IF ~errorThrows THEN [failed EXCEPT !.pc = "done"]
     ELSE IF st.attempt < EndpointCount
       THEN [failed EXCEPT !.pc = "reading", !.attempt = @ + 1, !.d = NewDecoder,
                           !.contentFed = 0, !.framesFed = 0, !.run = 0, !.clean = FALSE]
     ELSE [Deliver(failed, <<Call("onError", "", "")>>) EXCEPT !.pc = "done"]

Settle(st, outcome, errorThrows) ==
  LET delivered == [Deliver(st, outcome.calls) EXCEPT !.d = outcome.d]
  IN IF outcome.thrown THEN Caught(delivered, errorThrows) ELSE delivered

\* reader.read() returns the bytes of one frame
DecReadFrame ==
  /\ dec.pc = "reading"
  /\ dec.reads < MaxReads
  /\ \E code \in 0..Len(UpstreamEvents), chunkThrows, errorThrows \in BOOLEAN :
       LET fed == [dec EXCEPT !.reads = @ + 1,
                              !.d.buffer = @ \o FrameOf(code),
                              !.framesFed = @ + 1,
                              !.contentFed = IF PayloadEvent(<<code>>) = ContentEvent
                                               THEN @ + 1 ELSE @,
                              !.run = 0,
                              !.clean = @ /\ ~chunkThrows
                                          /\ PayloadEvent(<<code>>).type
                                               \notin {"error", "SyntaxError"}]
       IN dec' = Settle(fed, FrameLoop(fed.d, <<>>, chunkThrows), errorThrows)

\* reader.read() returns corrupt bytes
DecReadGarbage ==
  /\ dec.pc = "reading"
  /\ dec.reads < MaxReads
  /\ \E garbage \in GarbageRuns, errorThrows \in BOOLEAN :
       LET fed == [dec EXCEPT !.reads = @ + 1,
                              !.d.buffer = @ \o garbage,
                              !.run = @ + Len(garbage),
                              !.maxRun = Max(@, dec.run + Len(garbage)),
                              !.between = @ /\ dec.framesFed > 0]
       IN dec' = Settle(fed, FrameLoop(fed.d, <<>>, FALSE), errorThrows)

\* reader.read() returns done
DecEndOfStream ==
  /\ dec.pc = "reading"
  /\ \E chunkThrows, completeThrows, errorThrows \in BOOLEAN :
       LET outcome == EndOfStream(dec.d, chunkThrows)
           ended == [dec EXCEPT !.clean = @ /\ ~chunkThrows /\ ~completeThrows,
                                !.between = @ /\ dec.run = 0,
                                !.completed = ~outcome.thrown]
           settled == Settle(ended, outcome, errorThrows)
       IN dec' = IF outcome.thrown THEN settled
                 ELSE IF completeThrows THEN Caught(settled, errorThrows)
                 ELSE [settled EXCEPT !.pc = "done"]

(***************************************************************************)
(* The compression locks of stream.ts: compressHistory memoizes, per       *)
(* conversation id, the promise of the compression in progress.  A call    *)
(* runs up to its first await in one step; the continuations of a settled  *)
(* promise (the owner's and the waiters') run in one step, before the next *)
(* request is taken.  clearAllCaches, which also drops every lock, is      *)
(* modelled with the caches and is not taken here.                         *)
(***************************************************************************)
COMPRESSION_TIMEOUT == 120000
MAX_COMPRESSION_LOCKS == 20
MaxLockCalls == 3
MaxLockTicks == 3
LockTickMs == 60000

NoLock == [promise |-> 0, startTime |-> 0]

\* the message lists a conversation is sent with, each named by its newest
\* message: a later request of the conversation carries a newer message
NewestMessages == {"m1", "m2"}

LkInit ==
  lk = [locks |-> [c \in ConversationIds |-> NoLock],
        promises |-> <<>>,
        calls |-> <<>>]

\* the lock of a compression in progress that the next call will wait for
LiveLock(lock, t) == lock # NoLock /\ t - lock.startTime < COMPRESSION_TIMEOUT

\* the sweep compressHistory makes when the map holds more than
\* MAX_COMPRESSION_LOCKS entries
SweepIfFull(locks, t) ==
  IF Cardinality({c \in DOMAIN locks : locks[c] # NoLock}) > MAX_COMPRESSION_LOCKS
    THEN [c \in DOMAIN locks |->
            IF locks[c] # NoLock /\ t - locks[c].startTime > COMPRESSION_TIMEOUT
              THEN NoLock ELSE locks[c]]
    ELSE locks

\* the compressions of a conversation that are in progress and younger than
\* the lock TTL
YoungPending(promises, cid, t) ==
  {q \in 1..Len(promises) :
     /\ promises[q].conv = cid
     /\ promises[q].state = "pending"
     /\ t - promises[q].startTime < COMPRESSION_TIMEOUT}

\* compressHistory(account, messages, conversationId) for messages that need
\* compression, up to its await
LkCompressHistory ==
  /\ Len(lk.calls) < MaxLockCalls
  /\ \E cid \in ConversationIds, newest \in NewestMessages :
       LET existingLock == lk.locks[cid]
           p == Len(lk.promises) + 1
       IN IF LiveLock(existingLock, now)
            THEN lk' = [lk EXCEPT !.calls = Append(@, [conv |-> cid, promise |-> existingLock.promise,
                                                      owner |-> FALSE, result |-> <<>>,
                                                      newest |-> newest])]
            ELSE lk' = [locks |-> [SweepIfFull([lk.locks EXCEPT ![cid] = NoLock], now)
                                     EXCEPT ![cid] = [promise |-> p, startTime |-> now]],
                        promises |-> Append(lk.promises,
                                            [conv |-> cid, startTime |-> now, state |-> "pending",
                                             concurrent |-> YoungPending(lk.promises, cid, now),
                                             newest |-> newest]),
                        calls |-> Append(lk.calls, [conv |-> cid, promise |-> p,
                                                    owner |-> TRUE, result |-> <<>>,
                                                    newest |-> newest])]
  /\ UNCHANGED now

\* compressionLocks.delete(convId), called by the owner of compression p: the
\* entry of the conversation is removed, whichever compression set it
LockDeleted(locks, cid, p) == [locks EXCEPT ![cid] = NoLock]

\* doCompressHistory settles: the owner deletes the lock and returns the
\* result, or the truncated messages when the promise rejected; so does every
\* call that awaited the promise.
LkSettle ==
  /\ \E p \in 1..Len(lk.promises), ok \in BOOLEAN :
       /\ lk.promises[p].state = "pending"
       /\ lk' = [locks |-> LockDeleted(lk.locks, lk.promises[p].conv, p),
                 promises |-> [lk.promises EXCEPT ![p].state = IF ok THEN "fulfilled" ELSE "rejected"],
                 calls |-> [i \in 1..Len(lk.calls) |->
                              IF lk.calls[i].promise = p
                                THEN [lk.calls[i] EXCEPT !.result =
                                        IF ok THEN <<"compressed", p>> ELSE <<"truncated", i>>]
                                ELSE lk.calls[i]]]
  /\ UNCHANGED now

\* cleanupExpiredCache: the locks older than the timeout are dropped
LkCleanupExpiredCache ==
  /\ lk' = [lk EXCEPT !.locks =
              [c \in ConversationIds |->
                 IF lk.locks[c] # NoLock /\ now - lk.locks[c].startTime > COMPRESSION_TIMEOUT
                   THEN NoLock ELSE lk.locks[c]]]
  /\ lk' # lk
  /\ UNCHANGED now

LkTick ==
  /\ now < StartTime + MaxLockTicks * LockTickMs
  /\ now' = now + LockTickMs
  /\ UNCHANGED lk

(***************************************************************************)
(* The pool under a run of failing requests: accounts are added, requests  *)
(* acquire a credential and fail (recordError(id, 'other')), and the clock *)
(* does not move (Date.now() is well past the first auto-reset interval).  *)
(* The observers of the pool's calls are not kept here.                    *)
(***************************************************************************)
MaxErrors == 10
MaxInflight == 10

\* getNextAccount(model)
HealGetNextAccount ==
  /\ \A id \in Ids : inflightRequests[id] < MaxInflight
  /\ \E model \in Models :
       \E out \in GetNextAccountOutcomes(model) :
         /\ accounts' = out.accounts
         /\ lastAutoReset' = out.lastAutoReset
         /\ inflightRequests' = out.inflight
  /\ UNCHANGED <<order, loadBalancingMode, poolObs, now>>

\* recordError(id, 'other') for a request in flight
HealRecordError ==
  /\ \E id \in DOMAIN accounts :
       /\ inflightRequests[id] > 0
       /\ accounts[id].errorCount < MaxErrors
       /\ inflightRequests' = Released(inflightRequests, id)
       /\ accounts' = [accounts EXCEPT ![id] = ErrorRecorded(@, "other", now)]
  /\ UNCHANGED <<order, lastAutoReset, loadBalancingMode, poolObs, now>>

(***************************************************************************)
(* callKiroApiStream of lib/types.ts: the loop over the endpoints and the  *)
(* retries, one step per POST.  The upstream's answer to a POST is any of  *)
(* the kinds the loop tells apart.  A 200 hands the body to                *)
(* parseEventStream, which ends with one callback; the callbacks do not    *)
(* throw here.  The detail of a 400 holds none of the words the catch      *)
(* block looks for.  The history is a run of user/assistant turns, as the  *)
(* translators build it, with a tool use and its result in each turn or    *)
(* in none.  posts and aggressiveAt observe the call: the POSTs made, and   *)
(* the POSTs whose answer led to the aggressive sanitization.              *)
(***************************************************************************)
maxRetriesPerEndpoint == 1
maxTotalRetries == 3
MaxTurns == 4

Answers == {"ok", "rateLimited", "quota", "auth", "contentTooLong", "badRequest",
            "serverError", "apiError", "networkError"}

NoError == "none"

\* the contents of the messages of a conversation, each one different
UserContents == <<"u1", "u2", "u3", "u4", "u5", "u6", "u7", "u8">>
AssistantContents == <<"a1", "a2", "a3", "a4", "a5", "a6", "a7", "a8">>

\* the history of a conversation of n turns
TurnMessage(i, withTools) ==
  IF i % 2 = 1
    THEN UserInputMessage(UserContents[(i + 1) \div 2],
                          IF withTools /\ i > 1 THEN <<ToolResult("t1", "success")>> ELSE <<>>)
    ELSE AssistantResponseMessage(AssistantContents[i \div 2],
                                  IF withTools THEN <<"t1">> ELSE <<>>)

Histories ==
  {[i \in 1..(2 * n) |-> TurnMessage(i, withTools)] : n \in 0..MaxTurns, withTools \in BOOLEAN}

NoUpstreamCall ==
  [pc |-> "idle", endpoint |-> 1, retry |-> 0, totalRetries |-> 0,
   badRequestRetried |-> FALSE, contentTruncationTier |-> 0,
   shouldAbortAllEndpoints |-> FALSE, lastError |-> NoError,
   payload |-> NoPayload, posts |-> <<>>, calls |-> <<>>, aggressiveAt |-> <<>>]

UpInit == up = NoUpstreamCall

\* the history after one truncation tier: tierRatios = [0.5, 0.25, 0]
TierKeep(orig, tier) ==
  IF tier = 0 THEN Max(1, Len(orig) \div 2)
  ELSE IF tier = 1 THEN Max(1, Len(orig) \div 4)
  ELSE 0

Truncated(orig, tier) == SubSeq(orig, Len(orig) - TierKeep(orig, tier) + 1, Len(orig))

\* aggressiveSanitizePayload(payload)
aggressiveSanitizePayload(payload) ==
  LET textOnly == [i \in 1..Len(payload.history) |->
                     LET msg == payload.history[i]
                     IN IF isAssistantResponseMessage(msg)
                          THEN AssistantResponseMessage(
                                 IF msg.content = "" THEN "I understand." ELSE msg.content, <<>>)
                          ELSE UserInputMessage(
                                 IF IsBlank(msg.content) THEN "Continue" ELSE msg.content, <<>>)]
      current == [payload.currentMessage EXCEPT !.toolResults = <<>>]
  IN deepSanitizePayload(KiroPayload(current, textOnly))

\* break and continue of the inner loop
Break(c) == [c EXCEPT !.endpoint = @ + 1, !.retry = 0]
Continue_SameRetry(c) == c
Continue(c) == [c EXCEPT !.retry = @ + 1]

\* the loops are over: onError(lastError) when an error was kept
Returned(c) ==
  [c EXCEPT !.pc = "returned",
            !.calls = IF c.lastError # NoError THEN Append(@, "onError") ELSE @]

\* from the end of one attempt to the next POST, or to the end of the loops
RECURSIVE NextAttempt(_)
NextAttempt(c) ==
  IF c.endpoint > EndpointCount THEN Returned(c)
  ELSE IF c.retry = 0 /\ c.shouldAbortAllEndpoints THEN Returned(c)
  ELSE IF c.retry > maxRetriesPerEndpoint THEN NextAttempt(Break(c))
  ELSE IF c.totalRetries >= maxTotalRetries THEN NextAttempt(Break(c))
  ELSE [c EXCEPT !.pc = "posting"]

\* the catch block of an attempt
Thrown(c, error, retryable) ==
  LET kept == [c EXCEPT !.lastError = error]
  IN IF error \in {"Auth error", "QUOTA_EXHAUSTED"}
       THEN Break([kept EXCEPT !.shouldAbortAllEndpoints = TRUE])
     ELSE IF retryable /\ c.retry < maxRetriesPerEndpoint
       THEN Continue([kept EXCEPT !.totalRetries = @ + 1])
     ELSE Break(kept)

\* a 400: a truncation tier, the aggressive sanitization, or the error
BadRequest(c, isContentError) ==
  IF isContentError /\ c.payload.history # <<>> /\ c.contentTruncationTier < 3
    THEN Continue([c EXCEPT
           !.payload = deepSanitizePayload(
                         KiroPayload(c.payload.currentMessage,
                                     Truncated(c.payload.history, c.contentTruncationTier))),
           !.contentTruncationTier = @ + 1,
           !.totalRetries = @ + 1])
  ELSE IF ~c.badRequestRetried /\ c.payload.history # <<>>
    THEN Continue([c EXCEPT !.badRequestRetried = TRUE,
                            !.payload = aggressiveSanitizePayload(c.payload),
                            !.totalRetries = @ + 1,
                            !.aggressiveAt = Append(@, Len(c.posts))])
  ELSE Thrown(c, "Bad Request", FALSE)

\* what one attempt does with the upstream's answer, up to the end of the
\* attempt; an "ok" ends the call with the callback of parseEventStream
Answered(c, answer) ==
  CASE answer = "rateLimited" -> Break([c EXCEPT !.lastError = "Rate limited"])
    [] answer = "quota" -> Thrown(c, "QUOTA_EXHAUSTED", FALSE)
    [] answer = "auth" -> Thrown(c, "Auth error", FALSE)
    [] answer = "contentTooLong" -> BadRequest(c, TRUE)
    [] answer = "badRequest" -> BadRequest(c, FALSE)
    [] answer = "serverError" ->
         Continue([c EXCEPT !.lastError = "Server error", !.totalRetries = @ + 1])
    [] answer = "apiError" -> Thrown(c, "API error", FALSE)
    [] answer = "networkError" -> Thrown(c, "fetch failed", TRUE)

\* callKiroApiStream(account, payload, ...) up to its first POST
UpCall ==
  /\ up.pc = "idle"
  /\ \E history \in Histories :
       up' = NextAttempt([NoUpstreamCall EXCEPT
               !.payload = deepSanitizePayload(
                             KiroPayload(UserInputMessage("q", <<>>), history))])

\* the answer to the POST arrives
UpAnswer ==
  /\ up.pc = "posting"
  /\ \E answer \in Answers :
       LET posted == [up EXCEPT !.posts = Append(@, [endpoint |-> up.endpoint,
                                                    retry |-> up.retry,
                                                    totalRetries |-> up.totalRetries,
                                                    history |-> up.payload.history,
                                                    answer |-> answer])]
       IN IF answer = "ok"
            THEN \E callback \in {"onComplete", "onError"} :
                   up' = [posted EXCEPT !.pc = "returned", !.calls = Append(@, callback)]
            ELSE up' = NextAttempt(Answered(posted, answer))

(***************************************************************************)
(* Streamed tool calls: the toolUseEvent branch of parseEventStream        *)
(* (lib/types.ts) with the input an event carries, and the two SSE         *)
(* handlers (lib/stream.ts) that receive its callbacks.  Beside each       *)
(* handler's output the model keeps, for every event written, the          *)
(* toolUseId of the callback that wrote it (NoTool for text).              *)
(***************************************************************************)
MaxToolEvents == 5

NewToolStream ==
  [pc |-> "idle", events |-> 0, toolBuffers |-> <<>>, processedIds |-> {},
   claude |-> NewHandler(FALSE), openai |-> NewOpenAIHandler,
   claudeFor |-> <<>>, openaiFor |-> <<>>, exceeded |-> FALSE]

TsInit == ts = NewToolStream

\* the callbacks one toolUseEvent makes.  Every event carries toolUseId and
\* name; hasInput stands for a non-empty input string or an input object.
ToolUseCalls(st, tuId, hasInput, isStop) ==
  IF tuId \in st.processedIds THEN [st |-> st, calls |-> <<>>]
  ELSE LET isNew == tuId \notin SeqRange(st.toolBuffers)
           created == IF isNew THEN Append(st.toolBuffers, tuId) ELSE st.toolBuffers
           start == IF isNew THEN <<Call("onChunk", "start", tuId)>> ELSE <<>>
           fragment == IF hasInput THEN <<Call("onChunk", "fragment", tuId)>> ELSE <<>>
           stop == <<Call("onChunk", "stop", tuId), Call("onChunk", "toolUse", tuId)>>
       IN IF isStop
            THEN [st |-> [st EXCEPT !.toolBuffers = SelectSeq(created, LAMBDA id : id # tuId),
                                    !.processedIds = @ \cup {tuId}],
                  calls |-> start \o fragment \o stop]
            ELSE [st |-> [st EXCEPT !.toolBuffers = created],
                  calls |-> start \o fragment]

\* the tag of every event a callback appended to a handler's output
Tags(tags, before, after, id) == tags \o [i \in 1..(Len(after) - Len(before)) |-> id]

RECURSIVE TsDeliver(_, _)
TsDeliver(st, calls) ==
  IF calls = <<>> THEN st
  ELSE LET call == Head(calls)
           h == ClaudeCallback(st.claude, call)
           o == OpenAICallback(st.openai, call)
       IN TsDeliver([st EXCEPT !.claude = h, !.openai = o,
                               !.claudeFor = Tags(@, st.claude.out, h.out, call.id),
                               !.openaiFor = Tags(@, st.openai.chunks, o.chunks, call.id)],
                    Tail(calls))

\* the handlers are built and the Anthropic one sends message_start
TsConnect ==
  /\ ts.pc = "idle"
  /\ ts' = [ts EXCEPT !.pc = "reading",
                       !.claude = SendMessageStart(NewHandler(FALSE)),
                       !.claudeFor = <<NoTool>>]

\* an assistantResponseEvent with content, passed on as one text chunk
TsContentEvent ==
  /\ ts.pc = "reading"
  /\ ts.events < MaxToolEvents
  /\ ts' = TsDeliver([ts EXCEPT !.events = @ + 1], <<Call("onChunk", "text", NoTool)>>)

\* an exceptionEvent of type ContentLengthExceededException
TsExceptionEvent ==
  /\ ts.pc = "reading"
  /\ ts.events < MaxToolEvents
  /\ ts' = TsDeliver([ts EXCEPT !.events = @ + 1, !.exceeded = TRUE],
                     <<Call("onChunk", "toolUse", ContentLengthExceededId)>>)

\* a toolUseEvent
TsToolUseEvent ==
  /\ ts.pc = "reading"
  /\ ts.events < MaxToolEvents
  /\ \E tuId \in ToolIds, hasInput, isStop \in BOOLEAN :
       LET made == ToolUseCalls([ts EXCEPT !.events = @ + 1], tuId, hasInput, isStop)
       IN ts' = TsDeliver(made.st, made.calls)

\* reader.read() returns done: the tool calls left in toolBuffers are reported
\* whole, then onComplete
TsEndOfStream ==
  /\ ts.pc = "reading"
  /\ LET left == [i \in 1..Len(ts.toolBuffers) |-> Call("onChunk", "toolUse", ts.toolBuffers[i])]
     IN ts' = TsDeliver([ts EXCEPT !.pc = "done", !.toolBuffers = <<>>,
                                   !.processedIds = @ \cup SeqRange(ts.toolBuffers)],
                        left \o <<Call("onComplete", NoTool, NoTool)>>)

(***************************************************************************)
(* The batch loop of doCompressHistory (lib/stream.ts): the batches are    *)
(* summarized in chunks of CONCURRENCY; generateBatchSummary builds its    *)
(* prompt before its first await, so the prompts of a chunk are built in   *)
(* the step that starts the chunk.  A summary is kept as its kind and its  *)
(* batch; <<>> is the empty string summaries[] is filled with.             *)
(***************************************************************************)
CONCURRENCY == 3
MaxBatches == 7

NoSummary == <<>>
NoPrompt == <<"none">>
BatchSummaries == {"upstream", "truncated"}

BtInit ==
  bt = [pc |-> "idle", batches |-> 0, i |-> 0, summaries |-> <<>>, prompts |-> <<>>,
        results |-> <<>>, inflight |-> {}]

\* const summaries = new Array(batches.length).fill('')
BtSplit ==
  /\ bt.pc = "idle"
  /\ \E n \in 1..MaxBatches :
       bt' = [bt EXCEPT !.pc = "chunk", !.batches = n,
                        !.summaries = [k \in 1..n |-> NoSummary],
                        !.prompts = [k \in 1..n |-> NoPrompt],
                        !.results = [k \in 1..n |-> NoSummary]]

\* the previous context generateBatchSummary puts in the prompt of batch idx
\* (counted from 0): summaries[idx - 1] when it is a non-empty string
PreviousContext(summaries, idx) ==
  IF idx > 0 THEN summaries[idx] ELSE NoSummary

\* chunk.map(...): the summarizations of batches i .. i + CONCURRENCY - 1 start
BtStartChunk ==
  /\ bt.pc = "chunk"
  /\ LET chunk == {idx \in bt.i..(bt.i + CONCURRENCY - 1) : idx < bt.batches}
     IN bt' = [bt EXCEPT !.pc = "awaiting", !.inflight = chunk,
                         !.prompts = [k \in 1..bt.batches |->
                                        IF (k - 1) \in chunk
                                          THEN PreviousContext(bt.summaries, k - 1)
                                          ELSE @[k]]]

\* one generateBatchSummary returns: the upstream's summary, or the truncated
\* batch text when the call failed
BtBatchSummarized ==
  /\ bt.pc = "awaiting"
  /\ \E idx \in bt.inflight, kind \in BatchSummaries :
       bt' = [bt EXCEPT !.inflight = @ \ {idx},
                        !.results[idx + 1] = <<kind, idx>>]

\* Promise.allSettled resolves: the results are stored, the next chunk follows
BtChunkSettled ==
  /\ bt.pc = "awaiting"
  /\ bt.inflight = {}
  /\ LET chunk == {idx \in bt.i..(bt.i + CONCURRENCY - 1) : idx < bt.batches}
     IN bt' = [bt EXCEPT !.summaries = [k \in 1..bt.batches |->
                                          IF (k - 1) \in chunk THEN bt.results[k] ELSE @[k]],
                         !.i = @ + CONCURRENCY,
                         !.pc = IF bt.i + CONCURRENCY < bt.batches THEN "chunk" ELSE "done"]

(***************************************************************************)
(* Tool definitions (lib/accountPool.ts convertOpenAITools with its cache, *)
(* lib/types.ts ensureHistoryToolsDefined and the tools of                 *)
(* buildKiroPayload).  A description is its text and its length; a         *)
(* converted description is the text it starts with, the advisory appended *)
(* to it and whether it was cut.  toolConvertCache is a Map: the sequence  *)
(* of its entries in insertion order.                                      *)
(***************************************************************************)
KIRO_MAX_TOOL_DESC_LEN == 10237
TOOL_CACHE_MAX == 8
TOOL_CACHE_TTL == 300000
ToolTickMs == 150000
MaxToolTicks == 3
MaxToolCalls == 2

LongMcpName == "mcp__a_server_name_of_more_than_sixty_four_characters_in_all__open"
ToolNames == {"search", "Write", LongMcpName}
HistoryToolNames == {"search", "Search", "fetch"}
NameLength ==
  [n \in ToolNames \cup HistoryToolNames |->
     IF n = LongMcpName THEN 66 ELSE IF n \in {"Write", "fetch"} THEN 5 ELSE 6]
NoDescription == [text |-> "", length |-> 0]
Descriptions == {NoDescription, [text |-> "find files", length |-> 10],
                 [text |-> "grep files", length |-> 10]}
Schemas == {"schemaA", "schemaB"}

toLowerCase(name) ==
  CASE name = "Write" -> "write"
    [] name = "Search" -> "search"
    [] OTHER -> name

OpenAIToolFunction(name, description, parameters) ==
  [name |-> name, description |-> description, parameters |-> parameters]

OpenAITools == {OpenAIToolFunction(n, d, p) : n \in ToolNames, d \in Descriptions, p \in Schemas}

\* the tools lists of the requests: none, one tool, or a search tool and Write
ToolLists ==
  {<<>>} \cup {<<t>> : t \in OpenAITools}
         \cup {<<t, OpenAIToolFunction("Write", NoDescription, "schemaA")>> :
                 t \in {u \in OpenAITools : u.name = "search"}}

\* the names of the tool uses of the sanitized history, in order
ToolHistories == {<<>>, <<"search">>, <<"Search">>, <<"fetch">>, <<"search", "fetch", "fetch">>}

\* toolsFingerprint: the count and a hash of the strings name + description
\* length; the hash is a function of these strings, kept here as the strings
toolsFingerprint(tools) ==
  <<Len(tools), [i \in 1..Len(tools) |-> <<tools[i].name, tools[i].description.length>>]>>

appendToolSizeLimits(name, description) ==
  LET lower == toLowerCase(name)
  IN IF lower = "write" THEN [description EXCEPT !.suffix = "WRITE_TOOL_SUFFIX", !.length = @ + 206]
     ELSE IF lower = "edit" THEN [description EXCEPT !.suffix = "EDIT_TOOL_SUFFIX", !.length = @ + 151]
     ELSE description

shortenToolName(name) ==
  LET limit == 64
  IN IF NameLength[name] <= limit THEN name
     ELSE IF name = LongMcpName THEN "mcp__open"
     ELSE name

\* tools.map of convertOpenAITools for one tool
ConvertTool(tool) ==
  LET given == IF tool.description.length > 0
               THEN [text |-> <<tool.description.text>>, length |-> tool.description.length,
                     suffix |-> "none", cut |-> FALSE]
               ELSE [text |-> <<"Tool: ", tool.name>>, length |-> 6 + NameLength[tool.name],
                     suffix |-> "none", cut |-> FALSE]
      limited == appendToolSizeLimits(tool.name, given)
      description == IF limited.length > KIRO_MAX_TOOL_DESC_LEN
                     THEN [limited EXCEPT !.cut = TRUE, !.length = KIRO_MAX_TOOL_DESC_LEN + 3]
                     ELSE limited
  IN [name |-> shortenToolName(tool.name), description |-> description,
      inputSchema |-> tool.parameters]

ConvertTools(tools) == [i \in 1..Len(tools) |-> ConvertTool(tools[i])]

NewToolState ==
  [clock |-> 0, cache |-> <<>>, calls |-> 0, request |-> <<>>, result |-> <<>>,
   history |-> <<>>, payloadTools |-> <<>>]

TlInit == tl = NewToolState

CacheIndex(cache, fp) ==
  IF \E i \in 1..Len(cache) : cache[i].fp = fp
  THEN CHOOSE i \in 1..Len(cache) : cache[i].fp = fp
  ELSE 0

\* convertOpenAITools(tools) with the cache and the clock given: the result
\* and the cache it leaves
convertOpenAITools(cache, clock, tools) ==
  IF Len(tools) = 0 THEN [tools |-> <<>>, cache |-> cache]
  ELSE
    LET fp == toolsFingerprint(tools)
        at == CacheIndex(cache, fp)
    IN IF at > 0 /\ clock - cache[at].timestamp < TOOL_CACHE_TTL
       THEN [tools |-> cache[at].tools, cache |-> cache]
       ELSE
         LET result == ConvertTools(tools)
             kept == IF Len(cache) >= TOOL_CACHE_MAX THEN Tail(cache) ELSE cache
             entry == [fp |-> fp, tools |-> result, timestamp |-> clock]
             now_at == CacheIndex(kept, fp)
         IN [tools |-> result,
             cache |-> IF now_at > 0 THEN [kept EXCEPT ![now_at] = entry]
                       ELSE Append(kept, entry)]

\* the names of missing in insertion order: the names of history[1..n] that
\* no current tool has, lower-cased
RECURSIVE MissingNames(_, _, _)
MissingNames(currentNames, history, n) ==
  IF n = 0 THEN <<>>
  ELSE LET before == MissingNames(currentNames, history, n - 1)
           name == history[n]
       IN IF toLowerCase(name) \notin currentNames
             /\ \A i \in 1..Len(before) : before[i] # name
          THEN Append(before, name)
          ELSE before

ensureHistoryToolsDefined(tools, history) ==
  LET currentNames == {toLowerCase(tools[i].name) : i \in 1..Len(tools)}
      missing == MissingNames(currentNames, history, Len(history))
      placeholders == [i \in 1..Len(missing) |->
                         [name |-> missing[i],
                          description |-> [text |-> <<"Tool: ", missing[i]>>,
                                           length |-> 6 + NameLength[missing[i]],
                                           suffix |-> "none", cut |-> FALSE],
                          inputSchema |-> "emptyObject"]]
  IN IF Len(missing) = 0 THEN tools ELSE tools \o placeholders

\* userInputMessageContext.tools of the payload of buildKiroPayload; <<>>
\* when the field is not set
PayloadTools(tools, sanitizedHistory) ==
  IF Len(tools) > 0 THEN ensureHistoryToolsDefined(tools, sanitizedHistory) ELSE <<>>

\* openaiToKiro: kiroTools = convertOpenAITools(request.tools), then
\* buildKiroPayload(..., history, kiroTools, ...)
TlOpenaiToKiro ==
  /\ tl.calls < MaxToolCalls
  /\ \E tools \in ToolLists, history \in ToolHistories :
       LET converted == convertOpenAITools(tl.cache, tl.clock, tools)
       IN tl' = [tl EXCEPT !.cache = converted.cache, !.calls = @ + 1,
                           !.request = tools, !.result = converted.tools,
                           !.history = history,
                           !.payloadTools = PayloadTools(converted.tools, history)]

TlTick ==
  /\ tl.clock < MaxToolTicks * ToolTickMs
  /\ tl' = [tl EXCEPT !.clock = @ + ToolTickMs]

(***************************************************************************)
(* The rate limiter (lib/types.ts TokenBucket, RateLimiter), built by      *)
(* main.ts as new RateLimiter() and asked with tryAcquire('global').       *)
(* Tokens are counted in thousandths, so that the refill of a whole number *)
(* of milliseconds is a whole number: elapsed / 1000 * ratePerMinute / 60  *)
(* tokens are elapsed * ratePerMinute / 60 thousandths.                    *)
(***************************************************************************)
globalRatePerMinute == 600
perAccountRatePerMinute == 60
burstMultiplier == 3
RlTickMs == 500
MaxRlTicks == 3
MaxAcquires == 1805

Thousandths == 1000
AccountIds == {"global"}
NoReason == "none"

\* new TokenBucket(maxTokens, refillRatePerMinute) at the given time
TokenBucket(maxTokens, refillRatePerMinute, at) ==
  [tokens |-> maxTokens * Thousandths, maxTokens |-> maxTokens * Thousandths,
   refillRatePerMinute |-> refillRatePerMinute, lastRefill |-> at]

\* TokenBucket.refill at the given time
refill(bucket, at) ==
  LET elapsed == at - bucket.lastRefill
  IN [bucket EXCEPT !.tokens = Min(bucket.maxTokens,
                                   @ + (elapsed * bucket.refillRatePerMinute) \div 60),
                    !.lastRefill = at]

\* TokenBucket.tryConsume(1) at the given time: the answer and the bucket
tryConsume(bucket, at) ==
  LET filled == refill(bucket, at)
  IN IF filled.tokens >= Thousandths
     THEN [ok |-> TRUE, bucket |-> [filled EXCEPT !.tokens = @ - Thousandths]]
     ELSE [ok |-> FALSE, bucket |-> filled]

NewRateLimiter ==
  [clock |-> 0, calls |-> 0,
   globalBucket |-> TokenBucket(globalRatePerMinute * burstMultiplier, globalRatePerMinute, 0),
   accountBuckets |-> <<>>,
   last |-> [allowed |-> TRUE, reason |-> NoReason, accountId |-> "none",
             globalRefilled |-> 0, accountHad |-> FALSE, accountBefore |-> 0,
             accountRefilled |-> 0]]

RlInit == rl = NewRateLimiter

\* RateLimiter.tryAcquire(accountId); last keeps, beside the answer, what the
\* buckets held before the call and what the refill alone makes of them
RlTryAcquire ==
  /\ rl.calls < MaxAcquires
  /\ \E accountId \in AccountIds :
       LET global == tryConsume(rl.globalBucket, rl.clock)
           had == accountId \in DOMAIN rl.accountBuckets
           bucket == IF had THEN rl.accountBuckets[accountId]
                     ELSE TokenBucket(perAccountRatePerMinute * burstMultiplier,
                                      perAccountRatePerMinute, rl.clock)
           account == tryConsume(bucket, rl.clock)
           seen == [accountId |-> accountId,
                    globalRefilled |-> refill(rl.globalBucket, rl.clock).tokens,
                    accountHad |-> had,
                    accountBefore |-> bucket.tokens,
                    accountRefilled |-> refill(bucket, rl.clock).tokens]
       IN IF ~global.ok
          THEN rl' = [rl EXCEPT !.calls = @ + 1, !.globalBucket = global.bucket,
                                !.last = seen @@ [allowed |-> FALSE, reason |-> "Global rate limit exceeded"]]
          ELSE rl' = [rl EXCEPT !.calls = @ + 1, !.globalBucket = global.bucket,
                                !.accountBuckets = (accountId :> account.bucket) @@ @,
                                !.last = seen @@ [allowed |-> account.ok,
                                                  reason |-> IF account.ok THEN NoReason
                                                             ELSE "Account rate limit exceeded"]]

RlTick ==
  /\ rl.clock < MaxRlTicks * RlTickMs
  /\ rl' = [rl EXCEPT !.clock = @ + RlTickMs]

(***************************************************************************)
(* Request metrics (main.ts): the proxied routes of handleRequest and      *)
(* recordRequest.  A request is its route and what its handler does:       *)
(* return a Response with a status, or throw (verifyApiKey awaits the      *)
(* storage before the handler's own try).  handled and lastAdded are       *)
(* observers: the proxied requests handled and the log entries the last    *)
(* one added.                                                              *)
(***************************************************************************)
MaxProxied == 3
RequestLogMax == 200

ApiTypes == {"openai", "anthropic"}
Statuses == {200, 400, 401, 429, 500, 503}
HandlerThrows == 0
HandlerOutcomes == Statuses \cup {HandlerThrows}

NewMetrics ==
  [totalRequests |-> 0, successRequests |-> 0, errorRequests |-> 0, requestLog |-> <<>>,
   handled |-> 0, lastAdded |-> 0]

MtInit == mt = NewMetrics

\* recordRequest(entry)
recordRequest(metrics, entry) ==
  LET pushed == Append(metrics.requestLog, entry)
  IN [metrics EXCEPT !.totalRequests = @ + 1,
                     !.successRequests = IF entry.status < 400 THEN @ + 1 ELSE @,
                     !.errorRequests = IF entry.status < 400 THEN @ ELSE @ + 1,
                     !.requestLog = IF Len(pushed) > RequestLogMax THEN Tail(pushed) ELSE pushed,
                     !.lastAdded = @ + 1]

\* handleRequest for POST /v1/chat/completions and POST /v1/messages
MtHandleRequest ==
  /\ mt.handled < MaxProxied
  /\ \E apiType \in ApiTypes, outcome \in HandlerOutcomes :
       LET counted == [mt EXCEPT !.totalRequests = @ + 1, !.handled = @ + 1, !.lastAdded = 0]
       IN mt' = IF outcome = HandlerThrows THEN counted
                ELSE recordRequest(counted, [status |-> outcome, apiType |-> apiType])

(***************************************************************************)
(* Specifications.                                                         *)
(***************************************************************************)
Init ==
  /\ now = StartTime
  /\ CbInit
  /\ EncInit
  /\ PoolInit
  /\ GwInit
  /\ TpInit
  /\ PipeInit
  /\ TrInit
  /\ CmpInit
  /\ DecInit
  /\ LkInit
  /\ UpInit
  /\ TsInit
  /\ BtInit
  /\ TlInit
  /\ RlInit
  /\ MtInit

\* the parts a specification leaves alone
CbIdle == UNCHANGED <<cbVars, cbObs>>
EncIdle == UNCHANGED encVars
PoolIdle == UNCHANGED <<poolVars, poolObs>>
GwIdle == UNCHANGED <<gwVars, tp, pipe, conv, cmp, dec, lk, up, ts, bt, tl, rl, mt>>

NextBreaker ==
  \/ CanExecute /\ EncIdle /\ PoolIdle /\ GwIdle
  \/ CbRecordSuccess /\ EncIdle /\ PoolIdle /\ GwIdle
  \/ CbRecordFailure /\ EncIdle /\ PoolIdle /\ GwIdle
  \/ CbTick /\ EncIdle /\ PoolIdle /\ GwIdle

SpecBreaker == Init /\ [][NextBreaker]_vars

NextEncoder ==
  \/ EncStart /\ CbIdle /\ PoolIdle /\ UNCHANGED now /\ GwIdle
  \/ EncOnText /\ CbIdle /\ PoolIdle /\ UNCHANGED now /\ GwIdle
  \/ EncOnToolUse /\ CbIdle /\ PoolIdle /\ UNCHANGED now /\ GwIdle
  \/ EncOnToolUseStream /\ CbIdle /\ PoolIdle /\ UNCHANGED now /\ GwIdle
  \/ EncOnComplete /\ CbIdle /\ PoolIdle /\ UNCHANGED now /\ GwIdle
  \/ EncOnError /\ CbIdle /\ PoolIdle /\ UNCHANGED now /\ GwIdle

SpecEncoder == Init /\ [][NextEncoder]_vars

NextPool ==
  \/ AddAccount /\ CbIdle /\ EncIdle /\ GwIdle
  \/ RemoveAccount /\ CbIdle /\ EncIdle /\ GwIdle
  \/ UpdateAccountToken /\ CbIdle /\ EncIdle /\ GwIdle
  \/ UpdateAccountDisabled /\ CbIdle /\ EncIdle /\ GwIdle
  \/ GetNextAccount /\ CbIdle /\ EncIdle /\ GwIdle
  \/ ReleaseAccount /\ CbIdle /\ EncIdle /\ GwIdle
  \/ RecordSuccess /\ CbIdle /\ EncIdle /\ GwIdle
  \/ RecordError /\ CbIdle /\ EncIdle /\ GwIdle
  \/ MarkNeedsRefresh /\ CbIdle /\ EncIdle /\ GwIdle
  \/ MarkRefreshComplete /\ CbIdle /\ EncIdle /\ GwIdle
  \/ CheckQuotaRecovery /\ CbIdle /\ EncIdle /\ GwIdle
  \/ SelfHeal /\ CbIdle /\ EncIdle /\ GwIdle
  \/ Reset /\ CbIdle /\ EncIdle /\ GwIdle
  \/ SetLoadBalancingMode /\ CbIdle /\ EncIdle /\ GwIdle
  \/ PoolTick /\ CbIdle /\ EncIdle /\ GwIdle

SpecPool == Init /\ [][NextPool]_vars

NextGateway ==
  \/ GwAddAccount /\ CbIdle /\ EncIdle /\ GwIdle
  \/ \E r \in Reqs : GwSelectFromPool(r) /\ EncIdle /\ UNCHANGED <<upstreamStatus, tp, pipe, conv, cmp, dec, lk, up, ts, bt, tl, rl, mt>>
  \/ \E r \in Reqs : GwNoAccount(r) /\ EncIdle /\ UNCHANGED <<upstreamStatus, tp, pipe, conv, cmp, dec, lk, up, ts, bt, tl, rl, mt>>
  \/ \E r \in Reqs : GwSelectPinned(r) /\ EncIdle /\ UNCHANGED <<upstreamStatus, tp, pipe, conv, cmp, dec, lk, up, ts, bt, tl, rl, mt>>
  \/ \E r \in Reqs : GwSelectByRefreshToken(r) /\ EncIdle /\ UNCHANGED <<upstreamStatus, tp, pipe, conv, cmp, dec, lk, up, ts, bt, tl, rl, mt>>
  \/ \E r \in Reqs : GwReject(r) /\ EncIdle /\ UNCHANGED <<upstreamStatus, tp, pipe, conv, cmp, dec, lk, up, ts, bt, tl, rl, mt>>
  \/ \E r \in Reqs : GwTranslateError(r) /\ EncIdle /\ UNCHANGED <<upstreamStatus, tp, pipe, conv, cmp, dec, lk, up, ts, bt, tl, rl, mt>>
  \/ \E r \in Reqs : GwCallUpstream(r) /\ EncIdle /\ UNCHANGED <<upstreamStatus, tp, pipe, conv, cmp, dec, lk, up, ts, bt, tl, rl, mt>>
  \/ \E r \in Reqs : GwUpstreamSuccess(r) /\ EncIdle /\ UNCHANGED <<upstreamStatus, tp, pipe, conv, cmp, dec, lk, up, ts, bt, tl, rl, mt>>
  \/ \E r \in Reqs : GwStreamError(r) /\ EncIdle /\ UNCHANGED <<upstreamStatus, tp, pipe, conv, cmp, dec, lk, up, ts, bt, tl, rl, mt>>
  \/ \E r \in Reqs : GwNonStreamError(r) /\ EncIdle /\ UNCHANGED <<upstreamStatus, tp, pipe, conv, cmp, dec, lk, up, ts, bt, tl, rl, mt>>

SpecGateway == Init /\ [][NextGateway]_vars

\* requests served from the pool, with the status that ended the upstream call
NextQuota ==
  \/ GwAddAccount /\ CbIdle /\ EncIdle /\ GwIdle
  \/ \E r \in Reqs : GwSelectFromPool(r) /\ upstreamStatus' = 0 /\ EncIdle /\ UNCHANGED <<tp, pipe, conv, cmp, dec, lk, up, ts, bt, tl, rl, mt>>
  \/ \E r \in Reqs : GwCallUpstream(r) /\ upstreamStatus' = 0 /\ EncIdle /\ UNCHANGED <<tp, pipe, conv, cmp, dec, lk, up, ts, bt, tl, rl, mt>>
  \/ \E r \in Reqs : GwUpstreamSuccess(r) /\ upstreamStatus' = 200 /\ EncIdle /\ UNCHANGED <<tp, pipe, conv, cmp, dec, lk, up, ts, bt, tl, rl, mt>>
  \/ \E r \in Reqs : GwStreamError(r) /\ upstreamStatus' \in UpstreamErrors /\ EncIdle /\ UNCHANGED <<tp, pipe, conv, cmp, dec, lk, up, ts, bt, tl, rl, mt>>
  \/ \E r \in Reqs : GwNonStreamError(r) /\ upstreamStatus' \in UpstreamErrors /\ EncIdle /\ UNCHANGED <<tp, pipe, conv, cmp, dec, lk, up, ts, bt, tl, rl, mt>>

SpecQuota == Init /\ [][NextQuota]_vars

NextHeal ==
  \/ GwAddAccount /\ CbIdle /\ EncIdle /\ GwIdle
  \/ HealGetNextAccount /\ CbIdle /\ EncIdle /\ GwIdle
  \/ HealRecordError /\ CbIdle /\ EncIdle /\ GwIdle

SpecHeal == Init /\ [][NextHeal]_vars

NextParser ==
  \/ TpStart /\ CbIdle /\ EncIdle /\ PoolIdle /\ UNCHANGED <<gwVars, pipe, conv, cmp, dec, now, lk, up, ts, bt, tl, rl, mt>>
  \/ TpProcess /\ CbIdle /\ EncIdle /\ PoolIdle /\ UNCHANGED <<gwVars, pipe, conv, cmp, dec, now, lk, up, ts, bt, tl, rl, mt>>
  \/ TpFinish /\ CbIdle /\ EncIdle /\ PoolIdle /\ UNCHANGED <<gwVars, pipe, conv, cmp, dec, now, lk, up, ts, bt, tl, rl, mt>>

SpecParser == Init /\ [][NextParser]_vars

NextPipe ==
  \/ PipeStart /\ CbIdle /\ EncIdle /\ PoolIdle /\ UNCHANGED <<gwVars, tp, conv, cmp, dec, now, lk, up, ts, bt, tl, rl, mt>>
  \/ PipeContentEvent /\ CbIdle /\ EncIdle /\ PoolIdle /\ UNCHANGED <<gwVars, tp, conv, cmp, dec, now, lk, up, ts, bt, tl, rl, mt>>
  \/ PipeComplete /\ CbIdle /\ EncIdle /\ PoolIdle /\ UNCHANGED <<gwVars, tp, conv, cmp, dec, now, lk, up, ts, bt, tl, rl, mt>>

SpecPipe == Init /\ [][NextPipe]_vars

NextTranslate ==
  \/ TrAppendMessage /\ CbIdle /\ EncIdle /\ PoolIdle /\ UNCHANGED <<gwVars, tp, pipe, cmp, dec, now, lk, up, ts, bt, tl, rl, mt>>
  \/ TrTranslate /\ CbIdle /\ EncIdle /\ PoolIdle /\ UNCHANGED <<gwVars, tp, pipe, cmp, dec, now, lk, up, ts, bt, tl, rl, mt>>
  \/ TrDeepSanitize /\ CbIdle /\ EncIdle /\ PoolIdle /\ UNCHANGED <<gwVars, tp, pipe, cmp, dec, now, lk, up, ts, bt, tl, rl, mt>>

SpecTranslate == Init /\ [][NextTranslate]_vars

NextCompressor ==
  \/ CmpCompressHistory /\ CbIdle /\ EncIdle /\ PoolIdle /\ UNCHANGED <<gwVars, tp, pipe, conv, dec, now, lk, up, ts, bt, tl, rl, mt>>
  \/ CmpClearAllCaches /\ CbIdle /\ EncIdle /\ PoolIdle /\ UNCHANGED <<gwVars, tp, pipe, conv, dec, now, lk, up, ts, bt, tl, rl, mt>>

SpecCompressor == Init /\ [][NextCompressor]_vars

NextDecoder ==
  \/ DecConnect /\ CbIdle /\ EncIdle /\ PoolIdle /\ UNCHANGED <<gwVars, tp, pipe, conv, cmp, now, lk, up, ts, bt, tl, rl, mt>>
  \/ DecReadFrame /\ CbIdle /\ EncIdle /\ PoolIdle /\ UNCHANGED <<gwVars, tp, pipe, conv, cmp, now, lk, up, ts, bt, tl, rl, mt>>
  \/ DecReadGarbage /\ CbIdle /\ EncIdle /\ PoolIdle /\ UNCHANGED <<gwVars, tp, pipe, conv, cmp, now, lk, up, ts, bt, tl, rl, mt>>
  \/ DecEndOfStream /\ CbIdle /\ EncIdle /\ PoolIdle /\ UNCHANGED <<gwVars, tp, pipe, conv, cmp, now, lk, up, ts, bt, tl, rl, mt>>

SpecDecoder == Init /\ [][NextDecoder]_vars

NextLocks ==
  \/ LkCompressHistory /\ CbIdle /\ EncIdle /\ PoolIdle /\ UNCHANGED <<gwVars, tp, pipe, conv, cmp, dec, up, ts, bt, tl, rl, mt>>
  \/ LkSettle /\ CbIdle /\ EncIdle /\ PoolIdle /\ UNCHANGED <<gwVars, tp, pipe, conv, cmp, dec, up, ts, bt, tl, rl, mt>>
  \/ LkCleanupExpiredCache /\ CbIdle /\ EncIdle /\ PoolIdle /\ UNCHANGED <<gwVars, tp, pipe, conv, cmp, dec, up, ts, bt, tl, rl, mt>>
  \/ LkTick /\ CbIdle /\ EncIdle /\ PoolIdle /\ UNCHANGED <<gwVars, tp, pipe, conv, cmp, dec, up, ts, bt, tl, rl, mt>>

SpecLocks == Init /\ [][NextLocks]_vars

NextUpstream ==
  \/ UpCall /\ CbIdle /\ EncIdle /\ PoolIdle /\ UNCHANGED <<gwVars, tp, pipe, conv, cmp, dec, lk, ts, now, bt, tl, rl, mt>>
  \/ UpAnswer /\ CbIdle /\ EncIdle /\ PoolIdle /\ UNCHANGED <<gwVars, tp, pipe, conv, cmp, dec, lk, ts, now, bt, tl, rl, mt>>

SpecUpstream == Init /\ [][NextUpstream]_vars

NextKeep ==
  \/ CmpCompressDialogue /\ CbIdle /\ EncIdle /\ PoolIdle /\ UNCHANGED <<gwVars, tp, pipe, conv, dec, now, lk, up, ts, bt, tl, rl, mt>>
  \/ CmpClearAllCaches /\ CbIdle /\ EncIdle /\ PoolIdle /\ UNCHANGED <<gwVars, tp, pipe, conv, dec, now, lk, up, ts, bt, tl, rl, mt>>

SpecKeep == Init /\ [][NextKeep]_vars

NextBatches ==
  \/ BtSplit /\ CbIdle /\ EncIdle /\ PoolIdle /\ UNCHANGED <<gwVars, tp, pipe, conv, cmp, dec, lk, up, ts, now, tl, rl, mt>>
  \/ BtStartChunk /\ CbIdle /\ EncIdle /\ PoolIdle /\ UNCHANGED <<gwVars, tp, pipe, conv, cmp, dec, lk, up, ts, now, tl, rl, mt>>
  \/ BtBatchSummarized /\ CbIdle /\ EncIdle /\ PoolIdle /\ UNCHANGED <<gwVars, tp, pipe, conv, cmp, dec, lk, up, ts, now, tl, rl, mt>>
  \/ BtChunkSettled /\ CbIdle /\ EncIdle /\ PoolIdle /\ UNCHANGED <<gwVars, tp, pipe, conv, cmp, dec, lk, up, ts, now, tl, rl, mt>>

SpecBatches == Init /\ [][NextBatches]_vars

NextTools ==
  \/ TlOpenaiToKiro /\ CbIdle /\ EncIdle /\ PoolIdle /\ UNCHANGED <<gwVars, tp, pipe, conv, cmp, dec, lk, up, ts, bt, now, rl, mt>>
  \/ TlTick /\ CbIdle /\ EncIdle /\ PoolIdle /\ UNCHANGED <<gwVars, tp, pipe, conv, cmp, dec, lk, up, ts, bt, now, rl, mt>>

SpecTools == Init /\ [][NextTools]_vars

NextLimiter ==
  \/ RlTryAcquire /\ CbIdle /\ EncIdle /\ PoolIdle /\ UNCHANGED <<gwVars, tp, pipe, conv, cmp, dec, lk, up, ts, bt, tl, now, mt>>
  \/ RlTick /\ CbIdle /\ EncIdle /\ PoolIdle /\ UNCHANGED <<gwVars, tp, pipe, conv, cmp, dec, lk, up, ts, bt, tl, now, mt>>

SpecLimiter == Init /\ [][NextLimiter]_vars

NextMetrics ==
  \/ MtHandleRequest /\ CbIdle /\ EncIdle /\ PoolIdle /\ UNCHANGED <<gwVars, tp, pipe, conv, cmp, dec, lk, up, ts, bt, tl, rl, now>>

SpecMetrics == Init /\ [][NextMetrics]_vars

NextToolStream ==
  \/ TsConnect /\ CbIdle /\ EncIdle /\ PoolIdle /\ UNCHANGED <<gwVars, tp, pipe, conv, cmp, dec, lk, up, now, bt, tl, rl, mt>>
  \/ TsContentEvent /\ CbIdle /\ EncIdle /\ PoolIdle /\ UNCHANGED <<gwVars, tp, pipe, conv, cmp, dec, lk, up, now, bt, tl, rl, mt>>
  \/ TsToolUseEvent /\ CbIdle /\ EncIdle /\ PoolIdle /\ UNCHANGED <<gwVars, tp, pipe, conv, cmp, dec, lk, up, now, bt, tl, rl, mt>>
  \/ TsExceptionEvent /\ CbIdle /\ EncIdle /\ PoolIdle /\ UNCHANGED <<gwVars, tp, pipe, conv, cmp, dec, lk, up, now, bt, tl, rl, mt>>
  \/ TsEndOfStream /\ CbIdle /\ EncIdle /\ PoolIdle /\ UNCHANGED <<gwVars, tp, pipe, conv, cmp, dec, lk, up, now, bt, tl, rl, mt>>

SpecToolStream == Init /\ [][NextToolStream]_vars

(***************************************************************************)
(* Properties.                                                             *)
(***************************************************************************)

C8_CanExecuteWindow ==
  [][cbCall'.op = "canExecute" =>
       /\ (cbState = "OPEN" /\ now - lastFailureAt < resetTimeoutMs)
            => (cbCall'.ret = FALSE /\ cbState' = "OPEN")
       /\ (cbState = "OPEN" /\ now - lastFailureAt >= resetTimeoutMs)
            => (cbCall'.ret = TRUE /\ cbState' = "HALF_OPEN")
       /\ (cbState # "OPEN")
            => (cbCall'.ret = TRUE /\ cbState' = cbState)]_vars

\* C8 witness: a canExecute call found the breaker OPEN with the window elapsed
\* and moved it to HALF_OPEN.
C8_Witness ==
  /\ cbCall.op = "canExecute"
  /\ cbCall.from = "OPEN"
  /\ cbCall.ret = TRUE
  /\ cbState = "HALF_OPEN"
  /\ now - lastFailureAt >= resetTimeoutMs

\* C9: in HALF_OPEN a recorded failure moves the breaker to OPEN, and the
\* breaker becomes CLOSED again only from HALF_OPEN, on the third success
\* recorded since it entered HALF_OPEN, with failureCount reset to 0.
C9_HalfOpenProtocol ==
  [][/\ (cbState = "HALF_OPEN" /\ cbCall'.op = "recordFailure") => cbState' = "OPEN"
     /\ (cbState # "CLOSED" /\ cbState' = "CLOSED")
          => /\ cbState = "HALF_OPEN"
             /\ cbCall'.op = "recordSuccess"
             /\ probeSuccesses' = halfOpenMaxAttempts
             /\ failureCount' = 0
     /\ (cbState = "HALF_OPEN" /\ cbCall'.op = "recordSuccess"
           /\ probeSuccesses' < halfOpenMaxAttempts) => cbState' = "HALF_OPEN"]_vars

\* C9 witness: the breaker closed out of HALF_OPEN on a recorded success.
C9_Witness ==
  /\ cbState = "CLOSED"
  /\ cbCall.op = "recordSuccess"
  /\ cbCall.from = "HALF_OPEN"
  /\ probeSuccesses = halfOpenMaxAttempts

\* ---- the shape of an event trace
Positions(tr, type) == {i \in 1..Len(tr) : tr[i].type = type}

\* every content_block_start is followed by a content_block_stop of the same
\* index with no other content_block_start in between
BlocksBalanced(tr) ==
  \A i \in Positions(tr, "content_block_start") :
    \E j \in Positions(tr, "content_block_stop") :
      /\ j > i
      /\ tr[j].index = tr[i].index
      /\ \A k \in Positions(tr, "content_block_start") : ~(i < k /\ k < j)

\* every content_block_stop closes a block that is open
StopsMatched(tr) ==
  \A j \in Positions(tr, "content_block_stop") :
    \E i \in Positions(tr, "content_block_start") :
      /\ i < j
      /\ tr[i].index = tr[j].index
      /\ \A k \in Positions(tr, "content_block_start") \cup Positions(tr, "content_block_stop") :
           ~(i < k /\ k < j)

IndicesIncrease(tr) ==
  \A i, k \in Positions(tr, "content_block_start") :
    i < k => tr[i].index < tr[k].index

\* C10: whatever callbacks the decoder delivered, once finish has run the
\* Anthropic trace has exactly one message_start, exactly one message_stop
\* which is its last event, every content_block_start is matched by a
\* content_block_stop of the same index before the next content_block_start,
\* and block indices strictly increase.
C10_TraceWellFormed ==
  handler.responseEnded =>
    /\ Cardinality(Positions(handler.out, "message_start")) = 1
    /\ Positions(handler.out, "message_stop") = {Len(handler.out)}
    /\ BlocksBalanced(handler.out)
    /\ StopsMatched(handler.out)
    /\ IndicesIncrease(handler.out)

\* C10 witness: a finished trace with a text or thinking block and a tool_use
\* block, the tool block opened while another block was open.
C10_Witness ==
  /\ encPc = "closed"
  /\ handler.responseEnded
  /\ \E i, k \in Positions(handler.out, "content_block_start") :
       /\ i < k
       /\ handler.out[i].kind # "tool_use"
       /\ handler.out[k].kind = "tool_use"
       /\ handler.out[k - 1] = Ev("content_block_stop", handler.out[i].index, "null")

\* C1: for every credential, the in-flight count equals the number of requests
\* in progress that took the credential from the pool; it is 0 when no such
\* request is outstanding.
C1_InflightMatchesHolders ==
  \A id \in Ids :
    inflightRequests[id] =
      Cardinality({r \in Reqs : /\ requests[r].pc # "idle"
                                /\ requests[r].acquired
                                /\ requests[r].account = id})

\* ---- what the selection contract lists, stated without the pool's own check
InCooldown(a, t) == a.cooldownUntil # 0 /\ a.cooldownUntil > t
TokenStale(a, t) == a.expiresAt # 0 /\ t - a.expiresAt > expiryGraceMs
MeetsListed(a, t, model) ==
  /\ ~a.disabled
  /\ ~a.quotaExhausted
  /\ ~InCooldown(a, t)
  /\ a.errorCount < maxErrorCount
  /\ a.isAvailable
  /\ ~(IsOpus(model) /\ a.subscriptionType = "Free")
IsAcquire(call) == call.op = "getNextAccount"

\* C2: getNextAccount returns null exactly when the pool is empty: with at
\* least one credential in the pool it returns a credential, whatever the
\* credentials' state and the model asked for.
C2_NullOnlyWhenEmpty ==
  [][IsAcquire(lastCall') => (lastCall'.ret = NullAccount <=> order = <<>>)]_vars

\* C2 witness: an acquire on a pool of two credentials, both disabled, went
\* through the fallback and returned one of them.
C2_Witness ==
  /\ IsAcquire(lastCall)
  /\ lastCall.path = "fallback"
  /\ lastCall.ret # NullAccount
  /\ Len(order) = 2
  /\ \A id \in DOMAIN accounts : accounts[id].disabled

\* C3 (as claimed): whenever some credential of the pool is not disabled, not
\* quota-exhausted, not in cooldown, below the error threshold, not marked
\* needs-refresh and supports the model, the credential acquire returns meets
\* all of these.
C3_ReturnsListed ==
  [][(IsAcquire(lastCall')
        /\ \E id \in DOMAIN accounts : MeetsListed(accounts[id], now, lastCall'.model))
       => (lastCall'.ret # NullAccount
             /\ MeetsListed(lastCall'.ret, now, lastCall'.model))]_vars

\* C3 (amended): whenever some credential of the pool meets the listed
\* conditions and its token has not been expired for more than 30 s, the
\* credential acquire returns meets the listed conditions and has such a token,
\* under every load-balancing mode.
C3_ReturnsEligible ==
  [][(IsAcquire(lastCall')
        /\ \E id \in DOMAIN accounts :
             MeetsListed(accounts[id], now, lastCall'.model) /\ ~TokenStale(accounts[id], now))
       => (/\ lastCall'.ret # NullAccount
           /\ MeetsListed(lastCall'.ret, now, lastCall'.model)
           /\ ~TokenStale(lastCall'.ret, now))]_vars

\* C3 witness: in priority mode an acquire passed over the first credential of
\* the pool, which did not meet the conditions, and returned the second.
C3_Witness ==
  /\ IsAcquire(lastCall)
  /\ lastCall.path = "selected"
  /\ loadBalancingMode = "priority"
  /\ Len(order) = 2
  /\ lastCall.ret.id = order[2]
  /\ MeetsListed(lastCall.ret, now, lastCall.model)
  /\ ~MeetsListed(accounts[order[1]], now, lastCall.model)

\* C4: an acquire for an Opus-class model never returns a Free-tier credential.
C4_OpusNeverFree ==
  (IsAcquire(lastCall) /\ IsOpus(lastCall.model) /\ lastCall.ret # NullAccount)
    => lastCall.ret.subscriptionType # "Free"

\* C5: a credential recordError(id, 'banned') has run for stays in the pool
\* with disabled set, whatever pool calls follow, until an operator removes it
\* or clears the flag through the admin update.
C5_BannedStaysDisabled ==
  \A id \in bannedIds : id \in DOMAIN accounts /\ accounts[id].disabled

\* C5 witness: a banned credential on which later calls have cleared the
\* availability flag, the quota flag and the error count, and which is still
\* disabled.
C5_Witness ==
  \E id \in bannedIds :
    /\ accounts[id].isAvailable
    /\ ~accounts[id].quotaExhausted
    /\ accounts[id].errorCount = 0
    /\ accounts[id].disabled

\* C6: a credential that reached the error threshold and whose cooldown has
\* elapsed is eligible for normal selection again, its error count unchanged.
C6_EligibleAfterCooldown ==
  \A id \in DOMAIN accounts :
    (/\ accounts[id].errorCount = maxErrorCount
     /\ accounts[id].cooldownUntil # 0
     /\ accounts[id].cooldownUntil <= now
     /\ ~accounts[id].disabled
     /\ ~accounts[id].quotaExhausted
     /\ accounts[id].isAvailable
     /\ ~TokenStale(accounts[id], now))
      => CheckAccountAvailability(accounts[id], now)

\* C11: an Anthropic stream closed after an upstream failure ends with an error
\* event followed by message_stop.
C11_ErrorThenTerminator ==
  (encPc = "closed" /\ \E i \in 1..Len(handler.out) : handler.out[i].type = "error")
    => /\ Len(handler.out) >= 2
       /\ handler.out[Len(handler.out) - 1].type = "error"
       /\ handler.out[Len(handler.out)].type = "message_stop"

\* C12: a string fed to the thinking parser in chunks gives the same
\* concatenated text and the same concatenated thinking content as the string
\* fed in one chunk.
C12_ChunkingInvariant ==
  tp.pc = "finished"
    => /\ ContentOf(tp.items, "text") = ContentOf(WholeItems(tp.input), "text")
       /\ ContentOf(tp.items, "thinking") = ContentOf(WholeItems(tp.input), "thinking")

\* C13: when a thinking-enabled Anthropic stream is complete, what the
\* upstream wrapped in the thinking tags has reached the client as
\* thinking_delta, in one thinking block, and no character of it as text_delta.
C13_ThinkingAsThinkingDelta ==
  pipe.pc = "closed"
    => /\ ContentOf(pipe.deltas, "thinking_delta") = pipe.thinking
       /\ \A i \in 1..Len(ContentOf(pipe.deltas, "text_delta")) :
            ContentOf(pipe.deltas, "text_delta")[i] # "s"
       /\ Cardinality({i \in 1..Len(pipe.handler.out) :
                         pipe.handler.out[i] = Ev("content_block_start",
                                                  pipe.handler.out[i].index, "thinking")}) = 1

AllMessages(payload) == Append(payload.history, payload.currentMessage)

HistoryStartsWithUser == conv.built.history # <<>> => isUserInputMessage(conv.built.history[1])

HistoryAlternates ==
  \A i \in 1..Len(conv.built.history) :
    AllMessages(conv.built)[i].kind # AllMessages(conv.built)[i + 1].kind

HistoryEndsWithAssistant ==
  conv.built.history # <<>>
    => isAssistantResponseMessage(conv.built.history[Len(conv.built.history)])

ToolUsesAnswered ==
  \A i \in 1..Len(conv.built.history) :
    SeqRange(conv.built.history[i].toolUses)
      \subseteq ResultIds(AllMessages(conv.built)[i + 1].toolResults)

ToolResultsAsked ==
  \A j \in 1..Len(AllMessages(conv.built)) :
    \A id \in ResultIds(AllMessages(conv.built)[j].toolResults) :
      \E i \in 1..(j - 1) : id \in SeqRange(AllMessages(conv.built)[i].toolUses)

\* C14: the payload the translator builds has a history that begins with a
\* user turn, alternates strictly, ends with an assistant turn before the
\* current user message, has every assistant tool use answered by a tool result
\* of the same id in the following user turn, and has no tool result, in the
\* history or in the current message, whose id no earlier tool use has.
C14_PayloadWellFormed ==
  conv.pc = "translated"
    => /\ HistoryStartsWithUser
       /\ HistoryAlternates
       /\ HistoryEndsWithAssistant
       /\ ToolUsesAnswered
       /\ ToolResultsAsked

\* C15: sanitizeConversation applied to its own output returns the same list,
\* and deepSanitizePayload applied to a payload it has already sanitized leaves
\* the history and the current message as they are.
SanitizeIdempotent ==
  conv.pc = "translated"
    => sanitizeConversation(AllMessages(conv.built)) = AllMessages(conv.built)

DeepSanitizeIdempotent ==
  conv.sanitizations >= 1 => deepSanitizePayload(conv.payload) = conv.payload

C15_SanitizersIdempotent == SanitizeIdempotent /\ DeepSanitizeIdempotent

\* C16: two compressions whose prefixes differ in a compressed message, or
\* whose conversation ids differ, have different cache keys, and two with the
\* same conversation id and the same prefix have the same key.
C16_CacheKeyDistinguishes ==
  (cmp.last.toCompress # <<>> /\ cmp.prev.toCompress # <<>>)
    => (cmp.last.key = cmp.prev.key
          <=> /\ cmp.last.conversationId = cmp.prev.conversationId
              /\ cmp.last.toCompress = cmp.prev.toCompress)

\* the last two calls compressed the same over-threshold conversation
SameConversationTwice ==
  /\ cmp.prev.messages # <<>>
  /\ cmp.prev.over /\ cmp.last.over
  /\ cmp.last.messages = cmp.prev.messages
  /\ cmp.last.conversationId = cmp.prev.conversationId

SecondFromCache ==
  /\ cmp.prev.upstream >= 1
  /\ cmp.last.upstream = 0
  /\ cmp.last.hits = 1
  /\ Take(cmp.last.result, 2) = Take(cmp.prev.result, 2)
  /\ cmp.last.result[2] = AckMessage

\* C20 as stated: the second of two calls in a row for the same over-threshold
\* conversation makes no upstream call, returns the two head messages of the
\* first call from the cache, and raises stats.cacheHits by exactly 1.
C20_SecondCallFromCache == SameConversationTwice => SecondFromCache

\* C20, amended: the same, for a conversation whose keep boundary leaves more
\* than MIN_BATCH_SIZE messages to compress.
C20_SecondCallFromCacheWhenCompressed ==
  (SameConversationTwice /\ cmp.prev.boundary > MIN_BATCH_SIZE) => SecondFromCache

C20_Witness ==
  /\ SameConversationTwice
  /\ cmp.prev.boundary > MIN_BATCH_SIZE
  /\ cmp.last.hits = 1
  /\ cmp.stats.cacheHits = 1

CallsOf(cb, what) ==
  {i \in 1..Len(dec.calls) : dec.calls[i].cb = cb /\ dec.calls[i].what = what}

\* C17: when every run of corrupt bytes lies between two valid frames and has
\* at most four bytes, the decoder does not fail and delivers the events of
\* all the frames.
C17_GarbageTolerated ==
  (dec.clean /\ dec.between /\ dec.maxRun <= MAX_DECODE_ERRORS - 1)
    => /\ CallsOf("onError", "") = {}
       /\ dec.completed => Cardinality(CallsOf("onChunk", "text")) = dec.contentFed

Callbacks(cb) == {i \in 1..Len(dec.calls) : dec.calls[i].cb = cb}

\* C18: in one upstream call onComplete is called at most once, onError at
\* most once, never both, and neither onChunk nor onComplete after onError,
\* whether or not a callback throws.
C18_CallbackProtocol ==
  /\ Cardinality(Callbacks("onComplete")) <= 1
  /\ Cardinality(Callbacks("onError")) <= 1
  /\ Callbacks("onComplete") = {} \/ Callbacks("onError") = {}
  /\ \A i \in Callbacks("onError") :
       \A j \in Callbacks("onChunk") \cup Callbacks("onComplete") : j < i

ToolUsesDelivered(id) ==
  {i \in CallsOf("onChunk", "toolUse") : dec.calls[i].id = id}

ToolBlocksOpened ==
  {i \in 1..Len(dec.claude.out) :
     dec.claude.out[i] = Ev("content_block_start", dec.claude.out[i].index, "tool_use")}

\* C19: within one request the decoder delivers a completed tool use of a
\* toolUseId at most once, and each SSE handler opens at most one tool block
\* (Anthropic) or tool_call entry (OpenAI) for a toolUseId.
DecoderDeliversOnce == \A id \in ToolIds : Cardinality(ToolUsesDelivered(id)) <= 1

HandlersOpenOnce ==
  /\ Cardinality(ToolBlocksOpened) = Cardinality(dec.claude.processedToolUseIds)
  /\ \A i, j \in 1..Len(dec.openai.entries) :
       dec.openai.entries[i] = dec.openai.entries[j] => i = j

C19_ToolUseOnce == DecoderDeliversOnce /\ HandlersOpenOnce

\* the same, while the call is at its first endpoint
ToolUseOnceSingleStream == dec.attempt <= 1 => C19_ToolUseOnce

\* ---- quota answers of the upstream
\* the step in which request r's upstream call ends with a 402
QuotaAnswered(r) ==
  /\ requests[r].pc = "upstream"
  /\ requests'[r] # requests[r]
  /\ upstreamStatus' = 402
  /\ requests[r].account \in DOMAIN accounts

\* another credential of the pool is healthy
OtherHealthy(r) ==
  \E b \in DOMAIN accounts \ {requests[r].account} : CheckAccountAvailability(accounts[b], now)

\* C21: when the upstream answers 402 for the credential A of a request and
\* another healthy credential B exists, A is marked quotaExhausted, the
\* breaker's state and failure count are unchanged, and the request goes on
\* with another credential instead of ending.
C21_QuotaRedispatched ==
  [][\A r \in Reqs :
       (QuotaAnswered(r) /\ OtherHealthy(r))
         => /\ accounts'[requests[r].account].quotaExhausted
            /\ cbState' = cbState
            /\ failureCount' = failureCount
            /\ requests'[r].pc \in {"selected", "upstream"}
            /\ requests'[r].account # requests[r].account]_vars

\* ---- the compression locks
\* no compression was started while another one of the same conversation was
\* in progress and younger than the lock timeout
NoSecondCompression ==
  \A p \in 1..Len(lk.promises) : lk.promises[p].concurrent = {}

\* a call that found a compression in progress returned that compression's
\* result
WaitersShareResult ==
  \A i \in 1..Len(lk.calls) :
    (~lk.calls[i].owner /\ lk.promises[lk.calls[i].promise].state = "fulfilled")
      => lk.calls[i].result = <<"compressed", lk.calls[i].promise>>

\* a compression that has ended holds no lock
EndedHoldsNoLock ==
  \A p \in 1..Len(lk.promises) :
    lk.promises[p].state # "pending"
      => \A c \in ConversationIds : lk.locks[c].promise # p

\* C22: while a compression of a conversation is in progress and younger than
\* the 120 s lock timeout, a further compressHistory call for the conversation
\* starts no second compression and returns the result of the one in
\* progress; a compression that has ended holds no lock.
C22_OneCompressionPerConversation ==
  NoSecondCompression /\ WaitersShareResult /\ EndedHoldsNoLock

\* ---- the zero-downtime fallback
\* the last pool call was a getNextAccount that took the fallback
FallbackTaken == lastCall.op = "getNextAccount" /\ lastCall.path = "fallback"

\* C27: the zero-downtime fallback returns no disabled credential while the
\* pool holds a credential that is not disabled.
C27_FallbackNeverDisabled ==
  (FallbackTaken /\ \E id \in DOMAIN accounts : ~accounts[id].disabled)
    => ~lastCall.ret.disabled

\* the same while the pool holds a credential that is neither disabled nor
\* quota-exhausted
FallbackNeverDisabledWhileUsable ==
  (FallbackTaken /\ \E id \in DOMAIN accounts : Usable(accounts[id]))
    => ~lastCall.ret.disabled

\* ---- the self-heal step of an acquire
\* the step is a getNextAccount whose checkAutoReset found every credential
\* unavailable (lastAutoReset is set to now)
AutoResetFired == lastAutoReset' # lastAutoReset

\* the pool right after checkAutoReset, before the selection goes on
AfterAutoReset == CheckAutoReset(accounts, lastAutoReset, now).accounts

\* self-heal halves the error count of the error-disabled credentials
SelfHealHalves ==
  SelfHealApplies(accounts, now)
    => \A id \in DOMAIN accounts :
         ErrorDisabled(accounts[id])
           => AfterAutoReset[id].errorCount = accounts[id].errorCount \div 2

\* a pool with a credential that is neither disabled nor quota-exhausted has
\* an eligible credential after the step
EligibleAfterAutoReset ==
  (\E id \in DOMAIN accounts : Usable(accounts[id]))
    => \E id \in DOMAIN accounts :
         Usable(AfterAutoReset[id]) /\ CheckAccountAvailability(AfterAutoReset[id], now)

\* C28: when an acquire finds every credential unavailable at least 5 minutes
\* after the last auto-reset, the error-disabled credentials get their error
\* count halved, or else everything is reset, and after this step the pool is
\* not left without an eligible credential that is neither disabled nor
\* quota-exhausted.
C28_SelfHealLeavesEligible ==
  [][AutoResetFired => (SelfHealHalves /\ EligibleAfterAutoReset)]_vars

\* when the self-heal leaves every credential unavailable, the step ends with
\* all cooldowns and error counts cleared
ResetWhenStillUnavailable ==
  [][(AutoResetFired /\ \A id \in DOMAIN accounts :
                          ~CheckAccountAvailability(SelfHealed(accounts)[id], now))
       => \A id \in DOMAIN accounts :
            AfterAutoReset[id].errorCount = 0 /\ AfterAutoReset[id].cooldownUntil = 0]_vars

\* ---- the upstream call
\* C23: a call of callKiroApiStream that has returned has invoked onComplete
\* or onError.
C23_CallbackOnReturn == up.pc = "returned" => up.calls # <<>>

PostsTo(e) == {i \in 1..Len(up.posts) : up.posts[i].endpoint = e}

\* C24: one request makes at most 2 POSTs per endpoint and starts no attempt
\* once 3 retries have been consumed in total.
C24_RetryBudget ==
  /\ \A e \in 1..EndpointCount : Cardinality(PostsTo(e)) <= maxRetriesPerEndpoint + 1
  /\ \A i \in 1..Len(up.posts) : up.posts[i].totalRetries < maxTotalRetries

\* a call that used up the total budget on two endpoints
C24_Witness ==
  /\ up.pc = "returned"
  /\ up.totalRetries = maxTotalRetries
  /\ Cardinality(PostsTo(1)) = maxRetriesPerEndpoint + 1
  /\ PostsTo(EndpointCount) # {}

\* every POST so far was answered with a content-too-long 400
KeepsRejectingContent ==
  /\ up.posts # <<>>
  /\ \A i \in 1..Len(up.posts) : up.posts[i].answer = "contentTooLong"
  /\ up.posts[1].history # <<>>

\* the last n messages of a history, as deepSanitizePayload leaves them
LastPart(history, n) ==
  deepSanitizePayload(KiroPayload(UserInputMessage("q", <<>>),
                                  SubSeq(history, Len(history) - n + 1, Len(history)))).history

\* the request is sent again after each of the three tiers
ResentAfterEachTier == Len(up.posts) = 4

\* the histories of the re-sent requests: the last half, the last quarter,
\* nothing
TiersOfOriginal ==
  LET orig == up.posts[1].history
  IN /\ Len(up.posts) >= 2 => up.posts[2].history = LastPart(orig, Max(1, Len(orig) \div 2))
     /\ Len(up.posts) >= 3 => up.posts[3].history = LastPart(orig, Max(1, Len(orig) \div 4))
     /\ Len(up.posts) >= 4 => up.posts[4].history = <<>>

\* C25: when the upstream keeps answering content-too-long and the history is
\* not empty, the history is cut to its last 50%, then to its last 25%, then
\* to nothing, and the request is sent again after each of the three cuts.
C25_TruncationTiers ==
  (up.pc = "returned" /\ KeepsRejectingContent) => (ResentAfterEachTier /\ TiersOfOriginal)

\* the second tier taken as a quarter of what the first tier left
TiersOfCurrent ==
  (up.pc = "returned" /\ KeepsRejectingContent)
    => /\ Len(up.posts) >= 2
       /\ up.posts[2].history =
            LastPart(up.posts[1].history, Max(1, Len(up.posts[1].history) \div 2))
       /\ Len(up.posts) >= 3
       /\ up.posts[3].history =
            LastPart(up.posts[2].history, Max(1, Len(up.posts[2].history) \div 4))

NoToolsIn(history) ==
  \A i \in 1..Len(history) : history[i].toolUses = <<>> /\ history[i].toolResults = <<>>

\* the request sent again after the aggressive sanitization carries no tool
\* use and no tool result
AggressiveStrips ==
  \A k \in 1..Len(up.aggressiveAt) :
    up.aggressiveAt[k] + 1 <= Len(up.posts)
      => NoToolsIn(up.posts[up.aggressiveAt[k] + 1].history)

\* a 400 for the request sent again ends the call with an error
SecondBadRequestEnds ==
  \A k \in 1..Len(up.aggressiveAt) :
    LET i == up.aggressiveAt[k] + 1
    IN (i <= Len(up.posts) /\ up.posts[i].answer = "badRequest")
         => /\ Len(up.posts) = i
            /\ up.pc = "returned"
            /\ up.calls = <<"onError">>

\* C26: a non-content 400 leads to the aggressive sanitization (no tool use
\* and no tool result left in the history) at most once per request, and a
\* 400 for the request sent again ends the request with an error, without
\* another POST.
C26_AggressiveOnce ==
  /\ Len(up.aggressiveAt) <= 1
  /\ AggressiveStrips
  /\ SecondBadRequestEnds

AggressiveAtMostOnce == Len(up.aggressiveAt) <= 1


\* ---- the tool a written fragment belongs to
ClaudeFragments ==
  {i \in 1..Len(ts.claude.out) : /\ ts.claude.out[i].type = "content_block_delta"
                                 /\ ts.claude.out[i].kind = "input_json_delta"}
OpenAIFragments ==
  {i \in 1..Len(ts.openai.chunks) : ts.openai.chunks[i].kind = "arguments"}
OpenAIStarts == SelectSeq(ts.openai.chunks, LAMBDA c : c.kind = "start")

\* the Anthropic fragment at position i lies in the block that was opened as a
\* tool_use block for the toolUseId the fragment was reported for
InBlockOfItsTool(i) ==
  \E j \in 1..(i - 1) :
    /\ ts.claude.out[j].type = "content_block_start"
    /\ ts.claude.out[j].kind = "tool_use"
    /\ ts.claude.out[j].index = ts.claude.out[i].index
    /\ ts.claudeFor[j] = ts.claudeFor[i]

\* the OpenAI fragment at position i carries the index of the opening chunk of
\* the toolUseId the fragment was reported for
UnderIndexOfItsTool(i) ==
  \E j \in 1..(i - 1) :
    /\ ts.openai.chunks[j].kind = "start"
    /\ ts.openai.chunks[j].index = ts.openai.chunks[i].index
    /\ ts.openai.chunks[j].id = ts.openaiFor[i]

\* the tool calls opened in the OpenAI stream have the indices 0, 1, ... in the
\* order they were opened, each toolUseId once
OpenAIIndicesInOrder ==
  \A k \in 1..Len(OpenAIStarts) :
    /\ OpenAIStarts[k].index = k - 1
    /\ \A m \in 1..Len(OpenAIStarts) : OpenAIStarts[m].id = OpenAIStarts[k].id => m = k

AnthropicFragmentsAttributed == \A i \in ClaudeFragments : InBlockOfItsTool(i)
OpenAIFragmentsAttributed == \A i \in OpenAIFragments : UnderIndexOfItsTool(i)

\* C29 (as claimed): every tool-use input fragment written to a client stream
\* is attributed to the tool call it was reported for: in the OpenAI stream it
\* carries the index assigned to that toolUseId, the indices being 0, 1, ... in
\* the order the tool calls first appeared; in the Anthropic stream it is
\* written in the block opened for that toolUseId; also when a second tool's
\* start or fragments arrive before the first tool has stopped.
C29_FragmentsAttributed ==
  /\ OpenAIIndicesInOrder
  /\ OpenAIFragmentsAttributed
  /\ AnthropicFragmentsAttributed

\* ---- the block a delta is written in
BlockEvents == {"content_block_start", "content_block_stop"}
DeltaOf(blockType) ==
  IF blockType = "text" THEN "text_delta"
  ELSE IF blockType = "thinking" THEN "thinking_delta"
  ELSE "input_json_delta"

\* the last content_block_start or content_block_stop before position i, 0 if none
LastBlockEvent(out, i) ==
  LET before == {j \in 1..(i - 1) : out[j].type \in BlockEvents}
  IN IF before = {} THEN 0 ELSE CHOOSE j \in before : \A k \in before : k <= j

DeltaInOpenBlock(out, i) ==
  LET j == LastBlockEvent(out, i)
  IN j # 0 /\ out[j].type = "content_block_start" /\ out[j].index = out[i].index

DeltaKindMatches(out, i) ==
  LET j == LastBlockEvent(out, i)
  IN j # 0 /\ out[i].kind = DeltaOf(out[j].kind)

DeltasInOpenBlocks ==
  \A i \in Positions(handler.out, "content_block_delta") : DeltaInOpenBlock(handler.out, i)

\* C30 (as claimed): in the Anthropic encoder every content_block_delta is
\* written while a block is open, and its kind matches the type of that block
\* (text_delta in a text block, thinking_delta in a thinking block,
\* input_json_delta in a tool_use block), also when text arrives between a
\* tool's start and its stop.
C30_DeltaMatchesOpenBlock ==
  \A i \in Positions(handler.out, "content_block_delta") :
    DeltaInOpenBlock(handler.out, i) /\ DeltaKindMatches(handler.out, i)


\* ---- the stop reason of a finished stream
ToolBlockEmitted(out) ==
  \E i \in 1..Len(out) : out[i].type = "content_block_start" /\ out[i].kind = "tool_use"
ToolCallEmitted(chunks) == \E i \in 1..Len(chunks) : chunks[i].kind = "start"

AnthropicStopReason(out, exceeded) ==
  IF exceeded THEN "max_tokens" ELSE IF ToolBlockEmitted(out) THEN "tool_use" ELSE "end_turn"
OpenAIFinishReason(chunks, exceeded) ==
  IF exceeded THEN "length" ELSE IF ToolCallEmitted(chunks) THEN "tool_calls" ELSE "stop"

AnthropicStopReasonRight(h, exceeded) ==
  \A i \in Positions(h.out, "message_delta") :
    h.out[i].kind = AnthropicStopReason(h.out, exceeded)
OpenAIFinishReasonRight(o, exceeded) ==
  \A i \in 1..Len(o.chunks) :
    o.chunks[i].index = -1 => o.chunks[i].kind = OpenAIFinishReason(o.chunks, exceeded)

\* the stop reasons of a request whose stream was read once
StopReasonSingleStream ==
  /\ AnthropicStopReasonRight(ts.claude, ts.exceeded)
  /\ OpenAIFinishReasonRight(ts.openai, ts.exceeded)

\* C31: the final message_delta of the Anthropic stream carries max_tokens when
\* a content-length-exceeded exception was seen, else tool_use when a tool_use
\* block was emitted, else end_turn; the final chunk of the OpenAI stream
\* carries length, tool_calls or stop in the same cases.  Stated for a stream
\* read once and for a request whose stream was read again from the second
\* endpoint (no exception event occurs there).
C31_StopReason ==
  /\ StopReasonSingleStream
  /\ AnthropicStopReasonRight(dec.claude, FALSE)
  /\ OpenAIFinishReasonRight(dec.openai, FALSE)


\* ---- the boundary of a compression that ran
Compressed(call) == call.over /\ call.boundary > MIN_BATCH_SIZE

\* the cut falls between a tool_use and its tool_result: the last compressed
\* message is an assistant tool_use and the first preserved one holds a result
CutsPair(call) ==
  /\ call.boundary >= 1
  /\ call.boundary < Len(call.messages)
  /\ HasToolUse(call.messages[call.boundary])
  /\ HasToolResult(call.messages[call.boundary + 1])

\* C32: the compression boundary never falls between an assistant message
\* with a tool_use and the user message holding its tool_result.
C32_BoundaryKeepsPairs == Compressed(cmp.last) => ~CutsPair(cmp.last)

\* the same for the dialogues that end with a user message
BoundaryKeepsPairsUserLast ==
  (Compressed(cmp.last) /\ cmp.last.messages[Len(cmp.last.messages)].role = "user")
    => ~CutsPair(cmp.last)

\* ---- what a compression returns
IsSynthetic(result) ==
  /\ Len(result) >= 2
  /\ result[1].role = "user" /\ ~result[1].isArray
  /\ Len(result[1].text) >= 1 /\ result[1].text[1] = "[Previous conversation summary]"
  /\ result[2] = AckMessage

TailVerbatim(call) ==
  Drop(call.result, 2) = Drop(call.messages, call.boundary)

KeepsRecent(call) ==
  /\ Len(call.result) - 2 >= Min(keepMessageCount, Len(call.messages))
  /\ call.result[Len(call.result)] = call.messages[Len(call.messages)]

ResultIsSummaryAndTail ==
  Compressed(cmp.last) => (IsSynthetic(cmp.last.result) /\ TailVerbatim(cmp.last))

\* C33: when compression runs, the result is the summary message and the
\* acknowledgement followed by the original messages from the boundary on,
\* unchanged and in order; that tail holds at least the keep most recent
\* messages, and the caller's last message is the last message of the result.
C33_SummaryThenRecentTail ==
  Compressed(cmp.last) =>
    /\ IsSynthetic(cmp.last.result)
    /\ TailVerbatim(cmp.last)
    /\ KeepsRecent(cmp.last)


\* ---- the result a waiting call gets
\* call i returned the result of a compression: the summary of the compressed
\* prefix and the tail of the message list doCompressHistory was started with
ReturnedCompression(i) ==
  Len(lk.calls[i].result) = 2 /\ lk.calls[i].result[1] = "compressed"

\* the list the result was built from is the list call i passed
BuiltFromOwnList(i) ==
  lk.promises[lk.calls[i].result[2]].newest = lk.calls[i].newest

OwnersGetOwnTail ==
  \A i \in 1..Len(lk.calls) :
    (lk.calls[i].owner /\ ReturnedCompression(i)) => BuiltFromOwnList(i)

PromptBuilt(idx) == bt.prompts[idx + 1] # NoPrompt

\* the prompt of batch idx holds the finished summary of batch idx - 1
ChainedTo(idx) ==
  /\ bt.results[idx] # NoSummary
  /\ bt.prompts[idx + 1] = bt.results[idx]

AtMostThreeInFlight == Cardinality(bt.inflight) <= CONCURRENCY

\* the first batch of every chunk after the first is chained
ChunkHeadsChained ==
  \A idx \in 1..(bt.batches - 1) :
    (PromptBuilt(idx) /\ idx % CONCURRENCY = 0) => ChainedTo(idx)

\* C35: for every batch index i > 0 the summarization prompt of batch i holds
\* the finished summary of batch i - 1, and at most 3 batch summarizations are
\* in flight at any time.
C35_BatchSummariesChained ==
  /\ AtMostThreeInFlight
  /\ \A idx \in 1..(bt.batches - 1) : PromptBuilt(idx) => ChainedTo(idx)

\* the names of the definitions of a tools list, lower-cased as
\* ensureHistoryToolsDefined compares them
DefinedNames(tools) == {toLowerCase(tools[i].name) : i \in 1..Len(tools)}

UsedNames(history) == {history[i] : i \in 1..Len(history)}

HistoryToolsDefined ==
  \A name \in UsedNames(tl.history) : toLowerCase(name) \in DefinedNames(tl.payloadTools)

IsPlaceholder(definition) ==
  /\ definition.inputSchema = "emptyObject"
  /\ definition.description.text = <<"Tool: ", definition.name>>

\* when the request declares a tool, every tool name of the history has a
\* definition in the payload's tools, and the added ones are placeholders
\* with an empty schema after the declared definitions
HistoryToolsDefinedWhenDeclared ==
  (tl.calls > 0 /\ Len(tl.result) > 0)
    => /\ HistoryToolsDefined
       /\ SubSeq(tl.payloadTools, 1, Len(tl.result)) = tl.result
       /\ \A i \in (Len(tl.result) + 1)..Len(tl.payloadTools) :
            IsPlaceholder(tl.payloadTools[i])

\* C36: in every payload each tool name used by a tool use of the history has
\* a tool definition in the payload's tools list, also when the request
\* declares no tools at all
C36_HistoryToolsDefined == tl.calls > 0 => HistoryToolsDefined

\* a call answered from the cache returns definitions with the names of the
\* request's tools
CachedNamesRight ==
  tl.calls > 0 =>
    /\ Len(tl.result) = Len(tl.request)
    /\ \A i \in 1..Len(tl.result) : tl.result[i].name = shortenToolName(tl.request[i].name)

\* C37: whatever calls were made before, convertOpenAITools returns the
\* definitions (names, descriptions, input schemas) an uncached conversion of
\* the same tools list gives
C37_CacheTransparent == tl.calls > 0 => tl.result = ConvertTools(tl.request)

\* a call rejected by the global bucket takes no token of either bucket
GlobalRejectionTakesNothing ==
  (rl.calls > 0 /\ rl.last.reason = "Global rate limit exceeded")
    => /\ rl.globalBucket.tokens = rl.last.globalRefilled
       /\ rl.last.accountHad
            => rl.accountBuckets[rl.last.accountId].tokens = rl.last.accountBefore

\* C38: a tryAcquire that answers allowed = false leaves the token counts of
\* the global bucket and of the credential's bucket as the refill alone makes
\* them
C38_RejectionConsumesNothing ==
  (rl.calls > 0 /\ ~rl.last.allowed)
    => /\ rl.globalBucket.tokens = rl.last.globalRefilled
       /\ rl.last.accountHad
            => rl.accountBuckets[rl.last.accountId].tokens
                 \in {rl.last.accountBefore, rl.last.accountRefilled}

\* a canExecute call on an OPEN breaker resetTimeoutMs or more after the last
\* recordFailure call returns true
ProbeAfterLastFailure ==
  [][(cbCall'.op = "canExecute" /\ cbState = "OPEN" /\ now - lastFailTime >= resetTimeoutMs)
       => cbCall'.ret]_vars

\* C39: a canExecute call on an OPEN breaker resetTimeoutMs or more after the
\* failure that opened it returns true, whatever was recorded while it was
\* OPEN
C39_ProbeWithinResetTimeout ==
  [][(cbCall'.op = "canExecute" /\ cbState = "OPEN" /\ now - openedAt >= resetTimeoutMs)
       => cbCall'.ret]_vars

\* every recorded request is counted as a success or as an error, and the
\* log holds one entry for each
RecordedOnceEach ==
  /\ mt.successRequests + mt.errorRequests = Len(mt.requestLog)
  /\ mt.successRequests + mt.errorRequests <= mt.handled
  /\ mt.lastAdded <= 1

\* totalRequests counts every proxied request once in handleRequest and once
\* more in recordRequest
TotalCountsTwice ==
  mt.totalRequests = mt.handled + mt.successRequests + mt.errorRequests

\* C40: from zeroed metrics, totalRequests is the number of proxied requests
\* handled and is successRequests + errorRequests, and each request adds
\* exactly one entry to the request log
C40_MetricsCountRequests ==
  /\ mt.totalRequests = mt.handled
  /\ mt.totalRequests = mt.successRequests + mt.errorRequests
  /\ mt.handled > 0 => mt.lastAdded = 1

====
